---- MODULE Spec2Model ----
(***************************************************************************)
(* Orchestration engine of ai-orchestrator (services/orchestrator/engine.py *)
(* and state.py).  The engine runs on one asyncio event loop: a coroutine  *)
(* runs atomically from one suspension point (await) to the next, so every *)
(* action below is one such segment of a handler.  Every await of          *)
(* _emit_event, of a provider call and of asyncio.sleep is a suspension    *)
(* point (event delivery awaits the subscribers' sockets).                 *)
(***************************************************************************)
EXTENDS Integers, Sequences, FiniteSets, TLC

\* ------------------------------------------------------------------ bounds
MaxSubmits == 2         \* Spec: submit_task calls in one behaviour
MaxCancels == 1         \* Spec: cancel_task calls in one behaviour
MaxWorkersCfg == 2      \* settings.max_workers is drawn from 1..MaxWorkersCfg
CancelMaxSubmits == 1   \* SpecCancel: submit_task calls
CancelMaxCancels == 2   \* SpecCancel: cancel_task calls
ModeMaxSubmits == 2     \* SpecModes: submit_task calls
ModeMaxSwitches == 1    \* SpecModes: switch_mode calls
QueueMaxSubmits == 3    \* SpecQueue: submit_task calls
TimeStep == 300000      \* SpecTimeout: milliseconds that pass in one step of waiting
MaxElapsed == 900000    \* SpecTimeout: the waiting stops past this many milliseconds
LiveMaxSubmits == 2     \* SpecLive: submit_task calls
ParMaxCancels == 1
SnapMaxGets == 1
SnapMaxWrites == 1
MaxHandlers == 2
ErrMaxRaises == 1
StopMaxSubmits == 2
StopMaxCancels == 1
MaxBroadcasts == 2

TaskIds == {"t1", "t2"}
Priorities == {0, 10}
NoMode == "None"                      \* the mode argument left out
UnknownMode == "TURBO"                \* a name MODE_CONFIGS does not have

\* ------------------------------------------------------- values of state.py
None == "None"
Now == "now"           \* datetime.utcnow().isoformat(): some timestamp

PENDING == "pending"
DECOMPOSING == "decomposing"
RUNNING == "running"
COMPLETED == "completed"
FAILED == "failed"
CANCELLED == "cancelled"

Range(s) == {s[i] : i \in DOMAIN s}

\* ----------------------------------------------------------- MODE_CONFIGS
MODE_CONFIGS ==
  [m \in {"SPEED", "QUALITY", "AUTONOMY", "COST"} |->
    CASE m = "SPEED" ->
           [decompositionDepth |-> "shallow", parallelizationLevel |-> "aggressive",
            primaryModel |-> [provider |-> "claude", model |-> "claude-3-5-sonnet-20241022"],
            requiredAgents |-> <<"implement">>,
            taskTimeout |-> 300000]
      [] m = "QUALITY" ->
           [decompositionDepth |-> "deep", parallelizationLevel |-> "balanced",
            primaryModel |-> [provider |-> "claude", model |-> "claude-opus-4-5-20251101"],
            requiredAgents |-> <<"concept", "architect", "implement", "test", "review", "docs">>,
            taskTimeout |-> 900000]
      [] m = "AUTONOMY" ->
           [decompositionDepth |-> "deep", parallelizationLevel |-> "balanced",
            primaryModel |-> [provider |-> "claude", model |-> "claude-opus-4-5-20251101"],
            requiredAgents |-> <<"concept", "architect", "implement", "test", "review", "docs", "deploy">>,
            taskTimeout |-> 1200000]
      [] m = "COST" ->
           [decompositionDepth |-> "shallow", parallelizationLevel |-> "conservative",
            primaryModel |-> [provider |-> "ollama", model |-> "codellama:7b"],
            requiredAgents |-> <<"implement", "test">>,
            taskTimeout |-> 600000]]

\* MODE_CONFIGS.get(mode, MODE_CONFIGS["QUALITY"])
ModeConfigGet(mode) ==
  IF mode \in DOMAIN MODE_CONFIGS THEN MODE_CONFIGS[mode] ELSE MODE_CONFIGS["QUALITY"]

default_mode == "QUALITY"

\* ------------------------------------------------------------ state.py
\* phases holds the identity of the list object: 0 is the empty list made
\* here, e > 0 the list made by the _decompose_task call of executor e.
create_initial_task_state(task_id, mode, mode_config, priority, created) ==
  [task_id |-> task_id, mode |-> mode, status |-> PENDING, priority |-> priority,
   phases |-> 0, current_phase |-> 0, results |-> <<>>, errors |-> <<>>,
   tokens_used |-> 0, estimated_cost |-> 0,
   created_at |-> created, started_at |-> None, completed_at |-> None,
   mode_config |-> mode_config]

create_phase_state(number, name, agents, parallel) ==
  [number |-> number, name |-> name, status |-> PENDING, parallel |-> parallel,
   agents |-> agents, executions |-> <<>>, started_at |-> None, completed_at |-> None]

create_agent_execution(agent_type) ==
  [agent_type |-> agent_type, status |-> PENDING, error |-> None,
   tokens_input |-> 0, tokens_output |-> 0, cost |-> 0,
   started_at |-> None, completed_at |-> None]

\* ------------------------------------------------------ _decompose_task
phase_groups ==
  << [agents |-> <<"concept">>, name |-> "Concept"],
     [agents |-> <<"architect">>, name |-> "Architecture"],
     [agents |-> <<"implement">>, name |-> "Implementation"],
     [agents |-> <<"test">>, name |-> "Testing"],
     [agents |-> <<"review", "security">>, name |-> "Review"],
     [agents |-> <<"optimize">>, name |-> "Optimization"],
     [agents |-> <<"docs">>, name |-> "Documentation"],
     [agents |-> <<"deploy">>, name |-> "Deployment"] >>

\* phases made in the order of required_agents, one for each agent, instead
\* of the order of phase_groups
RECURSIVE DeepPhasesListOrder(_, _, _)
DeepPhasesListOrder(required_agents, g, phases) ==
  IF g > Len(required_agents) THEN phases
  ELSE DeepPhasesListOrder(required_agents, g + 1,
                           Append(phases, create_phase_state(Len(phases) + 1,
                                    required_agents[g], <<required_agents[g]>>, FALSE)))

\* lines 349-364: a phase for each group of phase_groups that has required
\* agents, in the order of phase_groups
RECURSIVE DeepPhases(_, _, _)
DeepPhases(required_agents, g, phases) ==
  IF g > Len(phase_groups) THEN phases
  ELSE LET phase_agents == SelectSeq(phase_groups[g].agents,
                                     LAMBDA a : a \in Range(required_agents))
       IN  IF phase_agents # <<>>
           THEN DeepPhases(required_agents, g + 1,
                           Append(phases, create_phase_state(Len(phases) + 1,
                                    phase_groups[g].name, phase_agents,
                                    Len(phase_agents) > 1)))
           ELSE DeepPhases(required_agents, g + 1, phases)

\* the shallow branch with the parallel flag taken from the number of agents
\* instead of the parallelization level of line 337
decompose_task_by_count(mode_config) ==
  IF mode_config.decompositionDepth = "shallow"
  THEN << create_phase_state(1, "Execution", mode_config.requiredAgents,
                             Len(mode_config.requiredAgents) > 1) >>
  ELSE DeepPhases(mode_config.requiredAgents, 1, <<>>)

\* the deep branch without the test "if phase_agents" of line 355
decompose_task_all_groups(mode_config) ==
  IF mode_config.decompositionDepth = "shallow"
  THEN << create_phase_state(1, "Execution", mode_config.requiredAgents,
                             mode_config.parallelizationLevel = "aggressive") >>
  ELSE [g \in DOMAIN phase_groups |->
          LET phase_agents == SelectSeq(phase_groups[g].agents,
                                        LAMBDA a : a \in Range(mode_config.requiredAgents))
          IN  create_phase_state(g, phase_groups[g].name, phase_agents,
                                 Len(phase_agents) > 1)]

decompose_task(mode_config) ==
  IF mode_config.decompositionDepth = "shallow"
  THEN << create_phase_state(1, "Execution", mode_config.requiredAgents,
                             mode_config.parallelizationLevel = "aggressive") >>
  ELSE DeepPhases(mode_config.requiredAgents, 1, <<>>)


\* -------------------------------------------------------------- engine state
VARIABLES
  current_mode,   \* self._current_mode
  running,        \* self._running
  max_workers,    \* self._max_workers
  tasks,          \* the TaskState objects ever created, in creation order
  active_tasks,   \* self._active_tasks: task id -> index into tasks (0: absent)
  task_queue,     \* self._task_queue
  workers,        \* self._workers in insertion order: <<[task_id, worker]>>
  execs,          \* the asyncio tasks running _execute_task, in creation order
  pq,             \* number of live _process_queue coroutines
  calls,          \* facade calls suspended at an await, and callers holding a returned state
  ncancel,        \* cancel_task calls made so far
  nswitch,        \* switch_mode calls made so far
  ev,             \* the event emitted by the last step
  ret,            \* the facade call that returned in the last step
  cancelled_ok,   \* ids for which a cancel_task call has returned True
  event_handlers, \* self._event_handlers, in registration order: <<[event, async, raises]>>
  manager         \* the websocket manager: its connections, subscriptions and broadcasts in flight

vars == <<current_mode, running, max_workers, tasks, active_tasks, task_queue,
          workers, execs, pq, calls, ncancel, nswitch, ev, ret, cancelled_ok,
          event_handlers, manager>>

NoRet == [op |-> "none"]

\* the channels of the websocket manager: all tasks, and one task
Channels == {"tasks", "task:t1"}

\* manager.py lines 21-29: a manager without connections or subscriptions
NoManager == [connections |-> {}, subscriptions |-> [ch \in Channels |-> {}],
              broadcasts |-> <<>>]

\* ------------------------------------------------------------- _emit_event
\* self._event_handlers[event]
HandlersOf(event) == SelectSeq(event_handlers, LAMBDA h : h.event = event)

\* the loop of lines 657-664 that lets a handler's exception out: the
\* handlers after it are not called
RECURSIVE CallHandlersUncaught(_, _, _)
CallHandlersUncaught(handlers, i, called) ==
  IF i > Len(handlers) THEN [called |-> called, propagated |-> FALSE]
  ELSE IF handlers[i].raises
       THEN [called |-> Append(called, i), propagated |-> TRUE]
       ELSE CallHandlersUncaught(handlers, i + 1, Append(called, i))

\* lines 657-664: each handler is called (awaited if it is a coroutine
\* function) inside try / except Exception; called lists the handlers that
\* were invoked, propagated tells whether an exception left the loop
RECURSIVE CallHandlers(_, _, _)
CallHandlers(handlers, i, called) ==
  IF i > Len(handlers) THEN [called |-> called, propagated |-> FALSE]
  ELSE \* handlers[i] returns or raises; except Exception only logs (663-664)
       CallHandlers(handlers, i + 1, Append(called, i))

\* lines 653-671: the handlers, then the forward to the websocket manager,
\* which is reached when no exception left the loop
emit_event(event, task_id, phase, agent) ==
  LET r == CallHandlers(HandlersOf(event), 1, <<>>)
  IN  [type |-> event, task_id |-> task_id, phase |-> phase, agent |-> agent,
       called |-> r.called, forwarded |-> ~r.propagated, propagated |-> r.propagated]

NoEvent == [type |-> "none", task_id |-> None, phase |-> 0, agent |-> None,
            called |-> <<>>, forwarded |-> FALSE, propagated |-> FALSE]
Event(type, task_id) == emit_event(type, task_id, 0, None)
PhaseEvent(type, task_id, phase) == emit_event(type, task_id, phase, None)
AgentEvent(type, task_id, phase, agent) == emit_event(type, task_id, phase, agent)
\* switch_mode hands mode_change to the websocket manager itself (line 144)
ModeChangeEvent ==
  [type |-> "mode_change", task_id |-> None, phase |-> 0, agent |-> None,
   called |-> <<>>, forwarded |-> TRUE, propagated |-> FALSE]

Terminal == {COMPLETED, FAILED, CANCELLED}

\* dict operations on self._workers
InWorkers(w, tid) == \E i \in DOMAIN w : w[i].task_id = tid
WorkerOf(w, tid) == (CHOOSE i \in DOMAIN w : w[i].task_id = tid)
SetWorker(w, tid, e) ==
  IF InWorkers(w, tid)
  THEN [i \in DOMAIN w |-> IF w[i].task_id = tid THEN [w[i] EXCEPT !.worker = e] ELSE w[i]]
  ELSE Append(w, [task_id |-> tid, worker |-> e])
DelWorker(w, tid) == SelectSeq(w, LAMBDA r : r.task_id # tid)

RemoveAt(s, i) == SubSeq(s, 1, i - 1) \o SubSeq(s, i + 1, Len(s))

\* list.remove(x): the first occurrence
ListRemove(s, x) ==
  IF x \in Range(s)
  THEN RemoveAt(s, CHOOSE i \in DOMAIN s : s[i] = x /\ \A j \in 1..(i - 1) : s[j] # x)
  ELSE s

\* list.sort(key = ..., reverse = True) is stable, highest key first; key is
\* the function task id -> priority
RECURSIVE SortInsert(_, _, _)
SortInsert(sorted, x, key) ==
  IF sorted = <<>> THEN <<x>>
  ELSE IF key[Head(sorted)] >= key[x]
       THEN <<Head(sorted)>> \o SortInsert(Tail(sorted), x, key)
       ELSE <<x>> \o sorted

\* the sort without reverse=True: lowest key first
RECURSIVE SortInsertAsc(_, _, _)
SortInsertAsc(sorted, x, key) ==
  IF sorted = <<>> THEN <<x>>
  ELSE IF key[Head(sorted)] <= key[x]
       THEN <<Head(sorted)>> \o SortInsertAsc(Tail(sorted), x, key)
       ELSE <<x>> \o sorted

RECURSIVE SortAsc(_, _)
SortAsc(s, key) ==
  IF s = <<>> THEN <<>>
  ELSE SortInsertAsc(SortAsc(SubSeq(s, 1, Len(s) - 1), key), s[Len(s)], key)

RECURSIVE SortDesc(_, _)
SortDesc(s, key) ==
  IF s = <<>> THEN <<>>
  ELSE SortInsert(SortDesc(SubSeq(s, 1, Len(s) - 1), key), s[Len(s)], key)

\* lambda tid: self._active_tasks[tid]["priority"]
PriorityKey(ts, active) ==
  [tid \in {t \in TaskIds : active[t] # 0} |-> ts[active[tid]].priority]

Init ==
  /\ current_mode = default_mode
  /\ running = FALSE
  /\ max_workers \in 1..MaxWorkersCfg
  /\ tasks = <<>>
  /\ active_tasks = [t \in TaskIds |-> 0]
  /\ task_queue = <<>>
  /\ workers = <<>>
  /\ execs = <<>>
  /\ pq = 0
  /\ calls = <<>>
  /\ ncancel = 0
  /\ nswitch = 0
  /\ ev = NoEvent
  /\ ret = NoRet
  /\ cancelled_ok = {}
  /\ event_handlers = <<>>
  /\ manager = NoManager

\* ------------------------------------------------------------------- start
start ==
  /\ ~running
  /\ running' = TRUE
  /\ ev' = NoEvent
  /\ ret' = NoRet
  /\ UNCHANGED <<current_mode, max_workers, tasks, active_tasks, task_queue,
                 workers, execs, pq, calls, ncancel, nswitch, cancelled_ok, event_handlers, manager>>

\* ------------------------------------------------------------- submit_task
\* lines 170-198: the new state, the queue, the emit
submit_task_body(task_id, mode_arg, priority) ==
  LET mode == IF mode_arg = NoMode THEN current_mode ELSE mode_arg
      o == Len(tasks) + 1
      state == create_initial_task_state(task_id, mode, ModeConfigGet(mode), priority, o)
  IN  /\ tasks' = Append(tasks, state)
      /\ active_tasks' = [active_tasks EXCEPT ![task_id] = o]
      /\ task_queue' = SortDesc(Append(task_queue, task_id),
                                PriorityKey(tasks', active_tasks'))
      /\ ev' = Event("task_submitted", task_id)
      /\ ret' = NoRet

SubmitCall(task_id) == [op |-> "submit", task_id |-> task_id, state |-> Len(tasks) + 1]

\* up to the await of _emit_event("task_submitted")
submit_task(task_id, mode_arg, priority) ==
  /\ submit_task_body(task_id, mode_arg, priority)
  /\ calls' = Append(calls, SubmitCall(task_id))
  /\ UNCHANGED <<current_mode, running, max_workers, workers, execs, pq,
                 ncancel, nswitch, cancelled_ok, event_handlers, manager>>

\* after the await: create_task(self._process_queue()) and return state
submit_task_return(c) ==
  /\ calls[c].op = "submit"
  /\ pq' = IF running THEN pq + 1 ELSE pq
  /\ calls' = RemoveAt(calls, c)
  /\ ev' = NoEvent
  /\ ret' = [op |-> "submit", task_id |-> calls[c].task_id, result |-> calls[c].state]
  /\ UNCHANGED <<current_mode, running, max_workers, tasks, active_tasks, task_queue,
                 workers, execs, ncancel, nswitch, cancelled_ok, event_handlers, manager>>

\* -------------------------------------------------------- _build_agent_prompt
\* no prompt has been built
NoPrompt == [agent |-> None, context |-> None]

\* lines 521-642: the key of previous_results that the template of the agent
\* kind reads; the concept template and the default of line 645 read none
PromptReference(agent_type) ==
  CASE agent_type = "architect" -> "concept"
    [] agent_type = "implement" -> "architect"
    [] agent_type \in {"test", "review", "security", "optimize", "docs", "deploy"} -> "implement"
    [] OTHER -> None

\* lines 516-645: the prompt of the agent; its context is the output stored
\* under the referenced key of state["results"], or the literal N/A when the
\* key is absent
build_agent_prompt(state, agent_type) ==
  LET ref == PromptReference(agent_type) IN
  [agent |-> agent_type,
   context |-> IF ref = None THEN None
               ELSE IF ref \in DOMAIN state.results THEN ref ELSE "N/A"]

\* ----------------------------------------------------------- _process_queue
NewWorker(task_id) ==
  [task_id |-> task_id, state |-> 0, pc |-> "created", must_cancel |-> FALSE,
   phases |-> <<>>, phase_idx |-> 0, agent_idx |-> 0,
   call |-> [provider |-> None, model |-> None],
   elapsed |-> 0, children |-> <<>>, raised |-> 0, prompt |-> NoPrompt]

\* the loop without the check of len(self._workers) against max_workers
RECURSIVE ProcessQueueLoopNoBound(_, _, _)
ProcessQueueLoopNoBound(q, w, ex) ==
  IF ~(running /\ q # <<>>)
  THEN [queue |-> q, workers |-> w, execs |-> ex, alive |-> FALSE]
  ELSE LET task_id == Head(q)
           o == active_tasks[task_id]
       IN  IF o = 0 \/ tasks[o].status # PENDING
           THEN ProcessQueueLoopNoBound(Tail(q), w, ex)
           ELSE ProcessQueueLoopNoBound(Tail(q), SetWorker(w, task_id, Len(ex) + 1),
                                        Append(ex, NewWorker(task_id)))

\* the loop leaving, instead of sleeping, when every worker slot is taken
RECURSIVE ProcessQueueLoopNoWait(_, _, _)
ProcessQueueLoopNoWait(q, w, ex) ==
  IF ~(running /\ q # <<>>) \/ Len(w) >= max_workers
  THEN [queue |-> q, workers |-> w, execs |-> ex, alive |-> FALSE]
  ELSE LET task_id == Head(q)
           o == active_tasks[task_id]
       IN  IF o = 0 \/ tasks[o].status # PENDING
           THEN ProcessQueueLoopNoWait(Tail(q), w, ex)
           ELSE ProcessQueueLoopNoWait(Tail(q), SetWorker(w, task_id, Len(ex) + 1),
                                       Append(ex, NewWorker(task_id)))

\* one run of the loop, from one asyncio.sleep to the next or to the exit
RECURSIVE ProcessQueueLoop(_, _, _)
ProcessQueueLoop(q, w, ex) ==
  IF ~(running /\ q # <<>>)
  THEN [queue |-> q, workers |-> w, execs |-> ex, alive |-> FALSE]
  ELSE IF Len(w) >= max_workers
  THEN [queue |-> q, workers |-> w, execs |-> ex, alive |-> TRUE]
  ELSE LET task_id == Head(q)
           o == active_tasks[task_id]
       IN  IF o = 0 \/ tasks[o].status # PENDING
           THEN ProcessQueueLoop(Tail(q), w, ex)
           ELSE ProcessQueueLoop(Tail(q), SetWorker(w, task_id, Len(ex) + 1),
                                 Append(ex, NewWorker(task_id)))

process_queue ==
  /\ pq > 0
  /\ LET r == ProcessQueueLoop(task_queue, workers, execs)
     IN  /\ task_queue' = r.queue
         /\ workers' = r.workers
         /\ execs' = r.execs
         /\ pq' = IF r.alive THEN pq ELSE pq - 1
  /\ ev' = NoEvent
  /\ ret' = NoRet
  /\ UNCHANGED <<current_mode, running, max_workers, tasks, active_tasks,
                 calls, ncancel, nswitch, cancelled_ok, event_handlers, manager>>

\* ------------------------------------------------------------- cancel_task
\* asyncio.Task.cancel(): a finished task ignores it
\* a task that awaits asyncio.gather passes the cancel on to the agents' tasks
TaskCancel(ex, e) ==
  IF ex[e].pc = "done" THEN ex
  ELSE [ex EXCEPT ![e].must_cancel = TRUE,
                  ![e].children = [i \in DOMAIN @ |->
                                     IF @[i].pc = "done" THEN @[i]
                                     ELSE [@[i] EXCEPT !.must_cancel = TRUE]]]

\* lines 228-236: the state update, the queue removal and the emit
cancel_task_update(c, w) ==
  /\ tasks' = [tasks EXCEPT ![c.state].status = CANCELLED,
                            ![c.state].completed_at = Now]
  /\ task_queue' = ListRemove(task_queue, c.task_id)
  /\ workers' = w
  /\ ev' = Event("task_cancelled", c.task_id)
  /\ ret' = NoRet

cancel_task(task_id) ==
  /\ ncancel' = ncancel + 1
  /\ LET o == active_tasks[task_id]
         c == [op |-> "cancel", task_id |-> task_id, state |-> o,
               status0 |-> IF o = 0 THEN None ELSE tasks[o].status,
               pc |-> "emit", worker |-> 0]
     IN  IF o = 0 \/ tasks[o].status \in {COMPLETED, FAILED}
         THEN /\ ret' = [op |-> "cancel", task_id |-> task_id, result |-> "False",
                         state |-> o, status0 |-> c.status0, emitted |-> FALSE]
              /\ ev' = NoEvent
              /\ UNCHANGED <<tasks, task_queue, workers, execs, calls>>
         ELSE IF InWorkers(workers, task_id)
         THEN LET e == workers[WorkerOf(workers, task_id)].worker
              IN  /\ execs' = TaskCancel(execs, e)
                  /\ calls' = Append(calls, [c EXCEPT !.pc = "worker", !.worker = e])
                  /\ ev' = NoEvent
                  /\ ret' = NoRet
                  /\ UNCHANGED <<tasks, task_queue, workers>>
         ELSE /\ cancel_task_update(c, workers)
              /\ calls' = Append(calls, c)
              /\ UNCHANGED execs
  /\ UNCHANGED <<current_mode, running, max_workers, active_tasks, pq, nswitch,
                 cancelled_ok, event_handlers, manager>>

\* the awaited worker has finished: del self._workers[task_id] and the update
cancel_task_resume(c) ==
  /\ calls[c].op = "cancel"
  /\ calls[c].pc = "worker"
  /\ execs[calls[c].worker].pc = "done"
  /\ IF InWorkers(workers, calls[c].task_id)
     THEN /\ cancel_task_update(calls[c], DelWorker(workers, calls[c].task_id))
          /\ calls' = [calls EXCEPT ![c].pc = "emit"]
     ELSE /\ ret' = [op |-> "cancel", task_id |-> calls[c].task_id, result |-> "KeyError",
                     state |-> calls[c].state, status0 |-> calls[c].status0,
                     emitted |-> FALSE]
          /\ ev' = NoEvent
          /\ calls' = RemoveAt(calls, c)
          /\ UNCHANGED <<tasks, task_queue, workers>>
  /\ UNCHANGED <<current_mode, running, max_workers, active_tasks, execs, pq,
                 ncancel, nswitch, cancelled_ok, event_handlers, manager>>

\* after the await of _emit_event("task_cancelled"): return True
cancel_task_return(c) ==
  /\ calls[c].op = "cancel"
  /\ calls[c].pc = "emit"
  /\ calls' = RemoveAt(calls, c)
  /\ ret' = [op |-> "cancel", task_id |-> calls[c].task_id, result |-> "True",
             state |-> calls[c].state, status0 |-> calls[c].status0, emitted |-> TRUE]
  /\ cancelled_ok' = cancelled_ok \cup {calls[c].task_id}
  /\ ev' = NoEvent
  /\ UNCHANGED <<current_mode, running, max_workers, tasks, active_tasks, task_queue,
                 workers, execs, pq, ncancel, nswitch, event_handlers, manager>>

\* -------------------------------------------------------------------- stop
\* lines 115-125, called on a started engine: _running is cleared and the loop
\* over self._workers.items() cancels the first worker and awaits it.  The
\* call remembers its place in the iteration (pos) and the size the dict had
\* when the iteration began.
stop ==
  /\ running
  /\ running' = FALSE
  /\ IF workers = <<>>
     THEN /\ ret' = [op |-> "stop", result |-> "None"]
          /\ UNCHANGED <<workers, execs, calls>>
     ELSE /\ execs' = TaskCancel(execs, workers[1].worker)
          /\ calls' = Append(calls, [op |-> "stop", pos |-> 1, size |-> Len(workers),
                                     worker |-> workers[1].worker])
          /\ ret' = NoRet
          /\ UNCHANGED workers
  /\ ev' = NoEvent
  /\ UNCHANGED <<current_mode, max_workers, tasks, active_tasks, task_queue, pq,
                 ncancel, nswitch, cancelled_ok, event_handlers, manager>>

\* lines 121-128: the awaited worker has ended.  The dict iterator raises
\* RuntimeError when the dict has changed size since the iteration began (the
\* finally clause of _execute_task deletes the worker's key); otherwise the
\* next worker is cancelled and awaited, or the loop ends and the dict is
\* cleared.
stop_resume(c) ==
  /\ calls[c].op = "stop"
  /\ execs[calls[c].worker].pc = "done"
  /\ IF Len(workers) # calls[c].size
     THEN /\ ret' = [op |-> "stop", result |-> "RuntimeError"]
          /\ calls' = RemoveAt(calls, c)
          /\ UNCHANGED <<workers, execs>>
     ELSE IF calls[c].pos < calls[c].size
     THEN /\ execs' = TaskCancel(execs, workers[calls[c].pos + 1].worker)
          /\ calls' = [calls EXCEPT ![c].pos = @ + 1,
                                    ![c].worker = workers[calls[c].pos + 1].worker]
          /\ ret' = NoRet
          /\ UNCHANGED workers
     ELSE /\ workers' = <<>>
          /\ ret' = [op |-> "stop", result |-> "None"]
          /\ calls' = RemoveAt(calls, c)
          /\ UNCHANGED execs
  /\ ev' = NoEvent
  /\ UNCHANGED <<current_mode, running, max_workers, tasks, active_tasks, task_queue, pq,
                 ncancel, nswitch, cancelled_ok, event_handlers, manager>>

\* ------------------------------------------------------------- switch_mode
\* switch_mode without the test of lines 136-137
switch_mode_unchecked(new_mode) ==
  /\ nswitch' = nswitch + 1
  /\ current_mode' = new_mode
  /\ ev' = ModeChangeEvent
  /\ calls' = Append(calls, [op |-> "switch_mode", old_mode |-> current_mode,
                             new_mode |-> new_mode])
  /\ ret' = NoRet
  /\ UNCHANGED <<running, max_workers, tasks, active_tasks, task_queue, workers,
                 execs, pq, ncancel, cancelled_ok, event_handlers, manager>>

\* lines 130-144: up to the await of send_mode_change
switch_mode(new_mode) ==
  /\ nswitch' = nswitch + 1
  /\ IF new_mode \notin DOMAIN MODE_CONFIGS
     THEN /\ ret' = [op |-> "switch_mode", result |-> "ValueError", new_mode |-> new_mode]
          /\ ev' = NoEvent
          /\ UNCHANGED <<current_mode, calls>>
     ELSE /\ current_mode' = new_mode
          /\ ev' = ModeChangeEvent
          /\ calls' = Append(calls, [op |-> "switch_mode", old_mode |-> current_mode,
                                     new_mode |-> new_mode])
          /\ ret' = NoRet
  /\ UNCHANGED <<running, max_workers, tasks, active_tasks, task_queue, workers,
                 execs, pq, ncancel, cancelled_ok, event_handlers, manager>>

\* lines 146-157: after the await, the returned dict
switch_mode_return(c) ==
  /\ calls[c].op = "switch_mode"
  /\ calls' = RemoveAt(calls, c)
  /\ ret' = [op |-> "switch_mode", result |-> "ok", old_mode |-> calls[c].old_mode,
             new_mode |-> calls[c].new_mode,
             active_tasks |-> Cardinality({t \in TaskIds : active_tasks[t] # 0})]
  /\ ev' = NoEvent
  /\ UNCHANGED <<current_mode, running, max_workers, tasks, active_tasks, task_queue,
                 workers, execs, pq, ncancel, nswitch, cancelled_ok, event_handlers, manager>>


\* ----------------------------------------------------------- the provider
\* what claude.generate / ollama.generate answer: a result, or an exception
ProviderReplies ==
  { [ok |-> TRUE, tokens_input |-> 1, tokens_output |-> 2, cost |-> 1],
    [ok |-> FALSE, tokens_input |-> 0, tokens_output |-> 0, cost |-> 0] }

\* ------------------------------------------------------------ _execute_task
\* The executor e is the asyncio task made by _process_queue.  Its pc names
\* the await it is suspended at.  execs[e].phases is the list its
\* _decompose_task call made; tasks[o].phases = e while state["phases"] is
\* that list.
TaskPhases(o) == IF tasks[o].phases = 0 THEN <<>> ELSE execs[tasks[o].phases].phases

\* the finally clause of _execute_task, and the end of the asyncio task
execute_task_finally(e, ex) ==
  /\ workers' = DelWorker(workers, execs[e].task_id)
  /\ execs' = [ex EXCEPT ![e].pc = "done"]
  /\ ev' = NoEvent

\* lines 293-298: after the phase loop
execute_task_finish(e, ts) ==
  LET o == execs[e].state
  IN  /\ tasks' = IF ts[o].status = RUNNING
                  THEN [ts EXCEPT ![o].status = COMPLETED, ![o].completed_at = Now]
                  ELSE ts
      /\ execs' = [execs EXCEPT ![e].pc = "task_completed"]
      /\ ev' = Event("task_completed", execs[e].task_id)

\* _execute_phase of phase p up to the await of _emit_event("phase_started")
execute_phase_begin(e, p) ==
  /\ tasks' = [tasks EXCEPT ![execs[e].state].current_phase = p - 1]
  /\ execs' = [execs EXCEPT ![e].phase_idx = p,
                            ![e].phases[p].status = RUNNING,
                            ![e].phases[p].started_at = Now,
                            ![e].pc = "phase_started"]
  /\ ev' = PhaseEvent("phase_started", execs[e].task_id, execs[e].phases[p].number)

\* the end of a phase without the completed_at of the finally clause
execute_phase_finish_unrecorded(e) ==
  LET p == execs[e].phase_idx
      ph == execs[e].phases[p]
      failed == \E i \in DOMAIN ph.executions : ph.executions[i].status = "failed"
  IN  /\ execs' = [execs EXCEPT ![e].phases[p].status = IF failed THEN FAILED ELSE COMPLETED,
                                ![e].pc = "phase_completed"]
      /\ ev' = PhaseEvent("phase_completed", execs[e].task_id, ph.number)

\* lines 405-423: the phase status and the finally clause of _execute_phase
execute_phase_finish(e) ==
  LET p == execs[e].phase_idx
      ph == execs[e].phases[p]
      failed == \E i \in DOMAIN ph.executions : ph.executions[i].status = "failed"
  IN  /\ execs' = [execs EXCEPT ![e].phases[p].status = IF failed THEN FAILED ELSE COMPLETED,
                                ![e].phases[p].completed_at = Now,
                                ![e].pc = "phase_completed"]
      /\ ev' = PhaseEvent("phase_completed", execs[e].task_id, ph.number)

\* _execute_agent of agent a up to the await of _emit_event("agent_started")
execute_agent_begin(e, a) ==
  LET p == execs[e].phase_idx
      ph == execs[e].phases[p]
      execution == [create_agent_execution(ph.agents[a]) EXCEPT
                      !.started_at = Now, !.status = "running"]
  IN  /\ execs' = [execs EXCEPT ![e].agent_idx = a,
                                ![e].phases[p].executions = Append(ph.executions, execution),
                                ![e].pc = "agent_started"]
      /\ ev' = AgentEvent("agent_started", execs[e].task_id, ph.number, ph.agents[a])

\* the branch of _execute_phase that runs the agents with asyncio.gather
RunsParallel(ph) == ph.parallel /\ Len(ph.agents) > 1

ExecFrame ==
  /\ ret' = NoRet
  /\ UNCHANGED <<current_mode, running, max_workers, active_tasks, task_queue, pq,
                 calls, ncancel, nswitch, cancelled_ok, event_handlers, manager>>

\* first run of the asyncio task: lines 266-274
execute_task_start(e) ==
  /\ ExecFrame
  /\ execs[e].pc = "created"
  /\ ~execs[e].must_cancel
  /\ LET o == active_tasks[execs[e].task_id]
     IN  /\ o # 0
         /\ tasks' = [tasks EXCEPT ![o].status = DECOMPOSING, ![o].started_at = Now]
         /\ execs' = [execs EXCEPT ![e].state = o, ![e].pc = "task_started"]
  /\ ev' = Event("task_started", execs[e].task_id)
  /\ UNCHANGED workers

\* the decomposition under the engine's current mode (self.mode_config)
execute_task_decompose_current(e) ==
  /\ ExecFrame
  /\ execs[e].pc = "task_started"
  /\ ~execs[e].must_cancel
  /\ LET o == execs[e].state
     IN  /\ tasks' = [tasks EXCEPT ![o].phases = e, ![o].status = RUNNING]
         /\ execs' = [execs EXCEPT ![e].phases = decompose_task(ModeConfigGet(current_mode)),
                                   ![e].pc = "task_decomposed"]
  /\ ev' = Event("task_decomposed", execs[e].task_id)
  /\ UNCHANGED workers

\* the decomposition with a phases list kept across calls instead of the
\* fresh list of line 327
execute_task_decompose_shared(e) ==
  /\ ExecFrame
  /\ execs[e].pc = "task_started"
  /\ ~execs[e].must_cancel
  /\ LET o == execs[e].state
     IN  /\ tasks' = [tasks EXCEPT ![o].phases = e, ![o].status = RUNNING]
         /\ execs' = [execs EXCEPT
               ![e].phases = (IF e > 1 THEN execs[e - 1].phases ELSE <<>>)
                                \o decompose_task(tasks[o].mode_config),
               ![e].pc = "task_decomposed"]
  /\ ev' = Event("task_decomposed", execs[e].task_id)
  /\ UNCHANGED workers

\* lines 276-281: _decompose_task, status running, emit task_decomposed
execute_task_decompose(e) ==
  /\ ExecFrame
  /\ execs[e].pc = "task_started"
  /\ ~execs[e].must_cancel
  /\ LET o == execs[e].state
     IN  /\ tasks' = [tasks EXCEPT ![o].phases = e, ![o].status = RUNNING]
         /\ execs' = [execs EXCEPT ![e].phases = decompose_task(tasks[o].mode_config),
                                   ![e].pc = "task_decomposed"]
  /\ ev' = Event("task_decomposed", execs[e].task_id)
  /\ UNCHANGED workers

\* lines 283-286: entering the phase loop
execute_task_first_phase(e) ==
  /\ ExecFrame
  /\ execs[e].pc = "task_decomposed"
  /\ ~execs[e].must_cancel
  /\ IF execs[e].phases = <<>>
     THEN execute_task_finish(e, tasks)
     ELSE execute_phase_begin(e, 1)
  /\ UNCHANGED workers

\* lines 385-398: after phase_started, the first agent of a sequential phase
execute_phase_agents(e) ==
  /\ ExecFrame
  /\ execs[e].pc = "phase_started"
  /\ ~execs[e].must_cancel
  /\ ~RunsParallel(execs[e].phases[execs[e].phase_idx])
  /\ IF execs[e].phases[execs[e].phase_idx].agents = <<>>
     THEN execute_phase_finish(e)
     ELSE execute_agent_begin(e, 1)
  /\ UNCHANGED <<tasks, workers>>

\* lines 444-470: the prompt is built and the provider is called
execute_agent_generate(e) ==
  /\ ExecFrame
  /\ execs[e].pc = "agent_started"
  /\ ~execs[e].must_cancel
  /\ execs' = [execs EXCEPT ![e].pc = "generate",
                            ![e].call = tasks[execs[e].state].mode_config.primaryModel,
                            ![e].prompt = build_agent_prompt(tasks[execs[e].state],
                                execs[e].phases[execs[e].phase_idx].agents[execs[e].agent_idx])]
  /\ ev' = NoEvent
  /\ UNCHANGED <<tasks, workers>>

\* time passes while the executor awaits claude.generate / ollama.generate
\* (lines 455-470); elapsed is the time since the asyncio task was made.
\* Nothing in the engine reads a clock or mode_config["taskTimeout"].
provider_wait(e) ==
  /\ ExecFrame
  /\ execs[e].pc = "generate"
  /\ ~execs[e].must_cancel
  /\ execs[e].elapsed <= MaxElapsed
  /\ execs' = [execs EXCEPT ![e].elapsed = @ + TimeStep]
  /\ ev' = NoEvent
  /\ UNCHANGED <<tasks, workers>>

\* the provider's exception raised after the task totals were updated
execute_agent_result_counted(e, reply) ==
  /\ ExecFrame
  /\ execs[e].pc = "generate"
  /\ ~execs[e].must_cancel
  /\ LET o == execs[e].state
         p == execs[e].phase_idx
         ph == execs[e].phases[p]
         k == Len(ph.executions)
         agent_type == ph.agents[execs[e].agent_idx]
     IN  /\ execs' = [execs EXCEPT
               ![e].phases[p].executions[k].status = IF reply.ok THEN "completed" ELSE "failed",
               ![e].phases[p].executions[k].error = IF reply.ok THEN None ELSE "error",
               ![e].phases[p].executions[k].completed_at = Now,
               ![e].pc = "agent_completed"]
         /\ tasks' = [tasks EXCEPT ![o].tokens_used = @ + 1, ![o].estimated_cost = @ + 1]
         /\ ev' = AgentEvent("agent_completed", execs[e].task_id, ph.number, agent_type)
  /\ UNCHANGED workers

\* the success update cut after line 478: the execution is marked completed
\* and the totals and the results entry are not yet written
execute_agent_result_partial(e, reply) ==
  /\ ExecFrame
  /\ execs[e].pc = "generate"
  /\ ~execs[e].must_cancel
  /\ LET p == execs[e].phase_idx
         ph == execs[e].phases[p]
         k == Len(ph.executions)
     IN  /\ execs' = [execs EXCEPT
               ![e].phases[p].executions[k].status = IF reply.ok THEN "completed" ELSE "failed",
               ![e].phases[p].executions[k].tokens_input = reply.tokens_input,
               ![e].phases[p].executions[k].tokens_output = reply.tokens_output,
               ![e].phases[p].executions[k].cost = reply.cost,
               ![e].phases[p].executions[k].completed_at = Now,
               ![e].pc = "agent_completed"]
         /\ ev' = AgentEvent("agent_completed", execs[e].task_id, ph.number,
                             ph.agents[execs[e].agent_idx])
  /\ UNCHANGED <<tasks, workers>>

\* lines 472-514: the provider answered
execute_agent_result(e, reply) ==
  /\ ExecFrame
  /\ execs[e].pc = "generate"
  /\ ~execs[e].must_cancel
  /\ LET o == execs[e].state
         p == execs[e].phase_idx
         ph == execs[e].phases[p]
         k == Len(ph.executions)
         agent_type == ph.agents[execs[e].agent_idx]
         r == tasks[o].results
     IN  /\ IF reply.ok
            THEN /\ execs' = [execs EXCEPT
                       ![e].phases[p].executions[k].status = "completed",
                       ![e].phases[p].executions[k].tokens_input = reply.tokens_input,
                       ![e].phases[p].executions[k].tokens_output = reply.tokens_output,
                       ![e].phases[p].executions[k].cost = reply.cost,
                       ![e].phases[p].executions[k].completed_at = Now,
                       ![e].pc = "agent_completed"]
                 /\ tasks' = [tasks EXCEPT
                       ![o].tokens_used = @ + reply.tokens_input + reply.tokens_output,
                       ![o].estimated_cost = @ + reply.cost,
                       ![o].results = [x \in DOMAIN r \cup {agent_type} |->
                                         IF x = agent_type
                                         THEN [tokens |-> reply.tokens_input + reply.tokens_output,
                                               cost |-> reply.cost]
                                         ELSE r[x]]]
            ELSE /\ execs' = [execs EXCEPT
                       ![e].phases[p].executions[k].status = "failed",
                       ![e].phases[p].executions[k].error = "error",
                       ![e].phases[p].executions[k].completed_at = Now,
                       ![e].pc = "agent_completed"]
                 /\ UNCHANGED tasks
         /\ ev' = AgentEvent("agent_completed", execs[e].task_id, ph.number, agent_type)
  /\ UNCHANGED workers

\* the agent loop without the break of lines 400-403
execute_phase_next_agent_nobreak(e) ==
  /\ ExecFrame
  /\ execs[e].pc = "agent_completed"
  /\ ~execs[e].must_cancel
  /\ LET ph == execs[e].phases[execs[e].phase_idx]
     IN  IF execs[e].agent_idx < Len(ph.agents)
         THEN execute_agent_begin(e, execs[e].agent_idx + 1)
         ELSE execute_phase_finish(e)
  /\ UNCHANGED <<tasks, workers>>

\* lines 397-423: after agent_completed, the next agent or the end of the phase
execute_phase_next_agent(e) ==
  /\ ExecFrame
  /\ execs[e].pc = "agent_completed"
  /\ ~execs[e].must_cancel
  /\ LET ph == execs[e].phases[execs[e].phase_idx]
         last_execution == ph.executions[Len(ph.executions)]
     IN  IF last_execution.status # "failed" /\ execs[e].agent_idx < Len(ph.agents)
         THEN execute_agent_begin(e, execs[e].agent_idx + 1)
         ELSE execute_phase_finish(e)
  /\ UNCHANGED <<tasks, workers>>

\* the phase loop without the failure check of lines 289-291
execute_task_next_phase_nocheck(e) ==
  /\ ExecFrame
  /\ execs[e].pc = "phase_completed"
  /\ ~execs[e].must_cancel
  /\ LET p == execs[e].phase_idx
     IN  IF p < Len(execs[e].phases)
         THEN execute_phase_begin(e, p + 1)
         ELSE execute_task_finish(e, tasks)
  /\ UNCHANGED workers

\* lines 284-298: after phase_completed, the failure check and the next phase
execute_task_next_phase(e) ==
  /\ ExecFrame
  /\ execs[e].pc = "phase_completed"
  /\ ~execs[e].must_cancel
  /\ LET o == execs[e].state
         p == execs[e].phase_idx
     IN  IF execs[e].phases[p].status = FAILED
         THEN execute_task_finish(e, [tasks EXCEPT ![o].status = FAILED])
         ELSE IF p < Len(execs[e].phases)
         THEN execute_phase_begin(e, p + 1)
         ELSE execute_task_finish(e, tasks)
  /\ UNCHANGED workers

\* lines 316-319: after task_completed
execute_task_end(e) ==
  /\ ExecFrame
  /\ execs[e].pc = "task_completed"
  /\ ~execs[e].must_cancel
  /\ execute_task_finally(e, execs)
  /\ UNCHANGED tasks

\* ------------------------------------ an exception out of _emit_event
\* The forward to the websocket manager (lines 666-671) is not inside a try:
\* broadcast_to_channel iterates a subscription set across the awaits of
\* send_json (manager.py:131-134), and a subscribe, a disconnect or another
\* broadcast's clean-up in between makes the iteration raise RuntimeError.
\* The exception is raised into executor e at the await of _emit_event it is
\* suspended at.  The emits of agent_started and agent_completed are inside
\* the try of _execute_phase (lines 385-416), the others are not.
emit_raises(e) ==
  /\ ExecFrame
  /\ ~execs[e].must_cancel
  /\ execs[e].raised < ErrMaxRaises
  /\ execs[e].pc \in {"task_started", "task_decomposed", "phase_started", "agent_started",
                      "agent_completed", "phase_completed", "task_completed"}
  /\ LET o == execs[e].state
         p == execs[e].phase_idx
     IN  IF execs[e].pc \in {"agent_started", "agent_completed"}
         THEN \* except Exception and finally of _execute_phase: lines 409-423
              /\ execs' = [execs EXCEPT ![e].phases[p].status = FAILED,
                                        ![e].phases[p].completed_at = Now,
                                        ![e].raised = @ + 1,
                                        ![e].pc = "phase_completed"]
              /\ tasks' = [tasks EXCEPT ![o].errors =
                              Append(@, [type |-> "phase_error", message |-> "error"])]
              /\ ev' = PhaseEvent("phase_completed", execs[e].task_id,
                                  execs[e].phases[p].number)
         ELSE \* except Exception of _execute_task: lines 304-314
              /\ execs' = [execs EXCEPT ![e].raised = @ + 1, ![e].pc = "task_failed"]
              /\ tasks' = [tasks EXCEPT ![o].status = FAILED,
                                        ![o].completed_at = Now,
                                        ![o].errors = Append(@, [type |-> "execution_error",
                                                                 message |-> "error"])]
              /\ ev' = Event("task_failed", execs[e].task_id)
  /\ UNCHANGED workers

\* lines 316-319: after task_failed
execute_task_failed_end(e) ==
  /\ ExecFrame
  /\ execs[e].pc = "task_failed"
  /\ ~execs[e].must_cancel
  /\ execute_task_finally(e, execs)
  /\ UNCHANGED tasks

\* ------------------------------------------- the parallel branch (386-393)
\* asyncio.gather makes one asyncio task per agent and the executor waits for
\* all of them.  execs[e].children[i] is the task of the i-th agent: its pc
\* names the await it is suspended at, exec the index of its execution record.
AllChildrenDone(x) == \A i \in DOMAIN x.children : x.children[i].pc = "done"

\* lines 386-393: the coroutines are made and gather is awaited
execute_phase_gather(e) ==
  /\ ExecFrame
  /\ execs[e].pc = "phase_started"
  /\ ~execs[e].must_cancel
  /\ RunsParallel(execs[e].phases[execs[e].phase_idx])
  /\ execs' = [execs EXCEPT
        ![e].pc = "gather",
        ![e].children = [i \in DOMAIN execs[e].phases[execs[e].phase_idx].agents |->
                           [agent |-> execs[e].phases[execs[e].phase_idx].agents[i],
                            pc |-> "created", must_cancel |-> FALSE, exec |-> 0,
                            prompt |-> NoPrompt]]]
  /\ ev' = NoEvent
  /\ UNCHANGED <<tasks, workers>>

\* lines 431-442 in the task of agent i; the tasks are first run in list order
agent_task_start(e, i) ==
  /\ ExecFrame
  /\ execs[e].pc = "gather"
  /\ execs[e].children[i].pc = "created"
  /\ ~execs[e].children[i].must_cancel
  /\ \A j \in 1..(i - 1) : execs[e].children[j].pc # "created"
  /\ LET p == execs[e].phase_idx
         ph == execs[e].phases[p]
         execution == [create_agent_execution(ph.agents[i]) EXCEPT
                         !.started_at = Now, !.status = "running"]
     IN  /\ execs' = [execs EXCEPT
               ![e].phases[p].executions = Append(ph.executions, execution),
               ![e].children[i].exec = Len(ph.executions) + 1,
               ![e].children[i].pc = "agent_started"]
         /\ ev' = AgentEvent("agent_started", execs[e].task_id, ph.number, ph.agents[i])
  /\ UNCHANGED <<tasks, workers>>

\* lines 444-470 in the task of agent i
agent_task_generate(e, i) ==
  /\ ExecFrame
  /\ execs[e].pc = "gather"
  /\ execs[e].children[i].pc = "agent_started"
  /\ ~execs[e].children[i].must_cancel
  /\ execs' = [execs EXCEPT ![e].children[i].pc = "generate",
                            ![e].call = tasks[execs[e].state].mode_config.primaryModel,
                            ![e].children[i].prompt =
                                build_agent_prompt(tasks[execs[e].state], execs[e].children[i].agent)]
  /\ ev' = NoEvent
  /\ UNCHANGED <<tasks, workers>>

\* lines 472-514 in the task of agent i
agent_task_result(e, i, reply) ==
  /\ ExecFrame
  /\ execs[e].pc = "gather"
  /\ execs[e].children[i].pc = "generate"
  /\ ~execs[e].children[i].must_cancel
  /\ LET o == execs[e].state
         p == execs[e].phase_idx
         ph == execs[e].phases[p]
         k == execs[e].children[i].exec
         agent_type == ph.agents[i]
         r == tasks[o].results
     IN  /\ IF reply.ok
            THEN /\ execs' = [execs EXCEPT
                       ![e].phases[p].executions[k].status = "completed",
                       ![e].phases[p].executions[k].tokens_input = reply.tokens_input,
                       ![e].phases[p].executions[k].tokens_output = reply.tokens_output,
                       ![e].phases[p].executions[k].cost = reply.cost,
                       ![e].phases[p].executions[k].completed_at = Now,
                       ![e].children[i].pc = "agent_completed"]
                 /\ tasks' = [tasks EXCEPT
                       ![o].tokens_used = @ + reply.tokens_input + reply.tokens_output,
                       ![o].estimated_cost = @ + reply.cost,
                       ![o].results = [x \in DOMAIN r \cup {agent_type} |->
                                         IF x = agent_type
                                         THEN [tokens |-> reply.tokens_input + reply.tokens_output,
                                               cost |-> reply.cost]
                                         ELSE r[x]]]
            ELSE /\ execs' = [execs EXCEPT
                       ![e].phases[p].executions[k].status = "failed",
                       ![e].phases[p].executions[k].error = "error",
                       ![e].phases[p].executions[k].completed_at = Now,
                       ![e].children[i].pc = "agent_completed"]
                 /\ UNCHANGED tasks
         /\ ev' = AgentEvent("agent_completed", execs[e].task_id, ph.number, agent_type)
  /\ UNCHANGED workers

\* the task of agent i ends after its agent_completed, cancelled or not
agent_task_end(e, i) ==
  /\ ExecFrame
  /\ execs[e].pc = "gather"
  /\ execs[e].children[i].pc = "agent_completed"
  /\ execs' = [execs EXCEPT ![e].children[i].pc = "done",
                            ![e].children[i].must_cancel = FALSE]
  /\ ev' = NoEvent
  /\ UNCHANGED <<tasks, workers>>

\* CancelledError in the task of agent i: a task that has not run yet never
\* runs, the await of agent_started is outside the try, and the provider call
\* is left through the finally clause of _execute_agent
agent_task_cancelled(e, i) ==
  /\ ExecFrame
  /\ execs[e].pc = "gather"
  /\ execs[e].children[i].must_cancel
  /\ execs[e].children[i].pc \in {"created", "agent_started", "generate"}
  /\ LET p == execs[e].phase_idx
         ph == execs[e].phases[p]
         k == execs[e].children[i].exec
     IN  IF execs[e].children[i].pc = "generate"
         THEN /\ execs' = [execs EXCEPT
                    ![e].phases[p].executions[k].completed_at = Now,
                    ![e].children[i].pc = "agent_completed",
                    ![e].children[i].must_cancel = FALSE]
              /\ ev' = AgentEvent("agent_completed", execs[e].task_id, ph.number,
                                  ph.agents[i])
         ELSE /\ execs' = [execs EXCEPT ![e].children[i].pc = "done",
                                        ![e].children[i].must_cancel = FALSE]
              /\ ev' = NoEvent
  /\ UNCHANGED <<tasks, workers>>

\* gather returns when every agent's task has ended: lines 405-423
execute_phase_gathered(e) ==
  /\ ExecFrame
  /\ execs[e].pc = "gather"
  /\ ~execs[e].must_cancel
  /\ AllChildrenDone(execs[e])
  /\ execute_phase_finish(e)
  /\ UNCHANGED <<tasks, workers>>

ParallelAgents ==
  \/ \E e \in DOMAIN execs : execute_phase_gather(e)
  \/ \E e \in DOMAIN execs : \E i \in DOMAIN execs[e].children : agent_task_start(e, i)
  \/ \E e \in DOMAIN execs : \E i \in DOMAIN execs[e].children : agent_task_generate(e, i)
  \/ \E e \in DOMAIN execs : \E i \in DOMAIN execs[e].children, reply \in ProviderReplies :
        agent_task_result(e, i, reply)
  \/ \E e \in DOMAIN execs : \E i \in DOMAIN execs[e].children : agent_task_end(e, i)
  \/ \E e \in DOMAIN execs : \E i \in DOMAIN execs[e].children : agent_task_cancelled(e, i)
  \/ \E e \in DOMAIN execs : execute_phase_gathered(e)

\* CancelledError is thrown into the executor at the await it is suspended at
execute_task_cancelled(e) ==
  /\ ExecFrame
  /\ execs[e].must_cancel
  /\ execs[e].pc # "done"
  /\ execs[e].pc = "gather" => AllChildrenDone(execs[e])
  /\ LET ex == [execs EXCEPT ![e].must_cancel = FALSE]
         p == execs[e].phase_idx
     IN  CASE execs[e].pc = "created" ->
                \* the coroutine never runs: no finally clause
                /\ execs' = [ex EXCEPT ![e].pc = "done"]
                /\ ev' = NoEvent
                /\ UNCHANGED <<tasks, workers>>
           [] execs[e].pc = "generate" ->
                \* finally of _execute_agent
                /\ execs' = [ex EXCEPT
                      ![e].phases[p].executions[Len(ex[e].phases[p].executions)].completed_at = Now,
                      ![e].pc = "unwind_agent"]
                /\ ev' = AgentEvent("agent_completed", execs[e].task_id,
                                    ex[e].phases[p].number,
                                    ex[e].phases[p].agents[execs[e].agent_idx])
                /\ UNCHANGED <<tasks, workers>>
           [] execs[e].pc \in {"agent_started", "agent_completed", "unwind_agent", "gather"} ->
                \* finally of _execute_phase
                /\ execs' = [ex EXCEPT ![e].phases[p].completed_at = Now,
                                       ![e].pc = "unwind_phase"]
                /\ ev' = PhaseEvent("phase_completed", execs[e].task_id,
                                    ex[e].phases[p].number)
                /\ UNCHANGED <<tasks, workers>>
           [] OTHER ->
                /\ execute_task_finally(e, ex)
                /\ UNCHANGED tasks

\* the CancelledError goes on after the await in a finally clause returned
execute_task_unwind(e) ==
  /\ ExecFrame
  /\ ~execs[e].must_cancel
  /\ LET p == execs[e].phase_idx
     IN  \/ /\ execs[e].pc = "unwind_agent"
            /\ execs' = [execs EXCEPT ![e].phases[p].completed_at = Now,
                                      ![e].pc = "unwind_phase"]
            /\ ev' = PhaseEvent("phase_completed", execs[e].task_id,
                                execs[e].phases[p].number)
            /\ UNCHANGED <<tasks, workers>>
         \/ /\ execs[e].pc = "unwind_phase"
            /\ execute_task_finally(e, execs)
            /\ UNCHANGED tasks

\* ------------------------------------------------------------ specification
\* the state after get_orchestrator(): constructed and started
InitStarted ==
  /\ current_mode = default_mode
  /\ running = TRUE
  /\ max_workers \in 1..MaxWorkersCfg
  /\ tasks = <<>>
  /\ active_tasks = [t \in TaskIds |-> 0]
  /\ task_queue = <<>>
  /\ workers = <<>>
  /\ execs = <<>>
  /\ pq = 0
  /\ calls = <<>>
  /\ ncancel = 0
  /\ nswitch = 0
  /\ ev = NoEvent
  /\ ret = NoRet
  /\ cancelled_ok = {}
  /\ event_handlers = <<>>
  /\ manager = NoManager

Executor ==
  \/ \E e \in DOMAIN execs : execute_task_start(e)
  \/ \E e \in DOMAIN execs : execute_task_decompose(e)
  \/ \E e \in DOMAIN execs : execute_task_first_phase(e)
  \/ \E e \in DOMAIN execs : execute_phase_agents(e)
  \/ \E e \in DOMAIN execs : execute_agent_generate(e)
  \/ \E e \in DOMAIN execs, reply \in ProviderReplies : execute_agent_result(e, reply)
  \/ \E e \in DOMAIN execs : execute_phase_next_agent(e)
  \/ \E e \in DOMAIN execs : execute_task_next_phase(e)
  \/ \E e \in DOMAIN execs : execute_task_end(e)

Cancellation ==
  \/ \E c \in DOMAIN calls : cancel_task_resume(c)
  \/ \E c \in DOMAIN calls : cancel_task_return(c)
  \/ \E e \in DOMAIN execs : execute_task_cancelled(e)
  \/ \E e \in DOMAIN execs : execute_task_unwind(e)

\* Spec: clients submit SPEED tasks and cancel them at any time
Next ==
  \/ \E t \in TaskIds, p \in Priorities :
        Len(tasks) < MaxSubmits /\ submit_task(t, "SPEED", p)
  \/ \E c \in DOMAIN calls : submit_task_return(c)
  \/ process_queue
  \/ \E t \in TaskIds : ncancel < MaxCancels /\ cancel_task(t)
  \/ Cancellation
  \/ Executor

Spec == InitStarted /\ [][Next]_vars

\* SpecCancel: one submission, repeated cancels
NextCancel ==
  \/ \E t \in TaskIds, p \in Priorities :
        Len(tasks) < CancelMaxSubmits /\ submit_task(t, "SPEED", p)
  \/ \E c \in DOMAIN calls : submit_task_return(c)
  \/ process_queue
  \/ \E t \in TaskIds : ncancel < CancelMaxCancels /\ cancel_task(t)
  \/ Cancellation
  \/ Executor

SpecCancel == InitStarted /\ [][NextCancel]_vars

\* SpecModes: submissions with and without a mode name, and switch_mode
NextModes ==
  \/ \E m \in {NoMode, UnknownMode} :
        Len(tasks) < ModeMaxSubmits /\ submit_task("t1", m, 0)
  \/ \E c \in DOMAIN calls : submit_task_return(c)
  \/ process_queue
  \/ \E m \in {"SPEED", "COST", UnknownMode} :
        nswitch < ModeMaxSwitches /\ switch_mode(m)
  \/ \E c \in DOMAIN calls : switch_mode_return(c)
  \/ Executor

\* one worker: the tasks run one after the other
InitModes == InitStarted /\ max_workers = 1

SpecModes == InitModes /\ [][NextModes]_vars


\* SpecQueue: one worker, no cancels, more submissions than Spec
NextQueue ==
  \/ \E t \in TaskIds, p \in Priorities :
        Len(tasks) < QueueMaxSubmits /\ submit_task(t, "SPEED", p)
  \/ \E c \in DOMAIN calls : submit_task_return(c)
  \/ process_queue
  \/ Executor

SpecQueue == InitModes /\ [][NextQueue]_vars

\* SpecPriority: one client coroutine runs
\*     await submit_task("t1", priority=0)
\*     [await of something else]
\*     await submit_task("t2", priority=10)
\* on an idle started engine with max_workers = 1.  A coroutine that is resumed
\* runs on to its next await: without the await in the middle, the return of
\* the first call and the second call up to its await of _emit_event are one
\* step (script_submit_B); with it, the first call returns, the event loop runs
\* what is ready, and the second call is made later (script_submit_B_late).
ScenarioModes == {NoMode, "SPEED", "COST"}

script_submit_A ==
  /\ tasks = <<>>
  /\ \E m \in ScenarioModes : submit_task("t1", m, 0)

script_submit_B ==
  /\ Len(tasks) = 1
  /\ calls # <<>>
  /\ pq' = IF running THEN pq + 1 ELSE pq
  /\ \E m \in ScenarioModes : submit_task_body("t2", m, 10)
  /\ calls' = <<SubmitCall("t2")>>
  /\ UNCHANGED <<current_mode, running, max_workers, workers, execs,
                 ncancel, nswitch, cancelled_ok, event_handlers, manager>>

script_return_A ==
  /\ Len(tasks) = 1
  /\ \E c \in DOMAIN calls : submit_task_return(c)

script_submit_B_late ==
  /\ Len(tasks) = 1
  /\ calls = <<>>
  /\ \E m \in ScenarioModes : submit_task("t2", m, 10)

script_return ==
  /\ Len(tasks) = 2
  /\ \E c \in DOMAIN calls : submit_task_return(c)

NextPriority ==
  \/ script_submit_A
  \/ script_submit_B
  \/ script_return_A
  \/ script_submit_B_late
  \/ script_return
  \/ process_queue
  \/ Executor

SpecPriority == InitModes /\ [][NextPriority]_vars


\* SpecLive: submissions only, under the fairness of the asyncio event loop:
\* every task that is ready to run (a coroutine whose await has returned, a
\* sleep that has expired, a provider call that has answered) is run.
ExecutorOf(e) ==
  /\ e \in DOMAIN execs
  /\ \/ execute_task_start(e)
     \/ execute_task_decompose(e)
     \/ execute_task_first_phase(e)
     \/ execute_phase_agents(e)
     \/ execute_agent_generate(e)
     \/ \E reply \in ProviderReplies : execute_agent_result(e, reply)
     \/ execute_phase_next_agent(e)
     \/ execute_task_next_phase(e)
     \/ execute_task_end(e)

NextLive ==
  \/ \E t \in TaskIds, p \in Priorities :
        Len(tasks) < LiveMaxSubmits /\ submit_task(t, "SPEED", p)
  \/ \E c \in DOMAIN calls : submit_task_return(c)
  \/ process_queue
  \/ Executor

Fairness ==
  /\ WF_vars(\E c \in DOMAIN calls : submit_task_return(c))
  /\ WF_vars(process_queue)
  /\ \A e \in 1..LiveMaxSubmits : WF_vars(ExecutorOf(e))

SpecLive == InitStarted /\ [][NextLive]_vars /\ Fairness

\* SpecTimeout: one task of any registered mode whose provider calls take time
NextTimeout ==
  \/ \E m \in DOMAIN MODE_CONFIGS :
        tasks = <<>> /\ submit_task("t1", m, 0)
  \/ \E c \in DOMAIN calls : submit_task_return(c)
  \/ process_queue
  \/ \E e \in DOMAIN execs : provider_wait(e)
  \/ Executor

SpecTimeout == InitModes /\ [][NextTimeout]_vars

\* SpecParallel: the gather branch of _execute_phase.  No entry of MODE_CONFIGS
\* gives a phase that is parallel and has two agents (security is only an
\* optional agent), so the branch is driven by a task whose mode_config is the
\* QUALITY entry with "security" among the required agents: Testing runs one
\* agent, Review runs review and security under asyncio.gather.
ParallelConfig ==
  [MODE_CONFIGS["QUALITY"] EXCEPT !.requiredAgents = <<"test", "review", "security">>]

\* the engine after submit_task("t1") has returned for such a task
InitParallel ==
  /\ current_mode = default_mode
  /\ running = TRUE
  /\ max_workers = 1
  /\ tasks = <<create_initial_task_state("t1", "QUALITY", ParallelConfig, 0, 1)>>
  /\ active_tasks = [t \in TaskIds |-> IF t = "t1" THEN 1 ELSE 0]
  /\ task_queue = <<"t1">>
  /\ workers = <<>>
  /\ execs = <<>>
  /\ pq = 1
  /\ calls = <<>>
  /\ ncancel = 0
  /\ nswitch = 0
  /\ ev = NoEvent
  /\ ret = NoRet
  /\ cancelled_ok = {}
  /\ event_handlers = <<>>
  /\ manager = NoManager

NextParallel ==
  \/ process_queue
  \/ ncancel < ParMaxCancels /\ cancel_task("t1")
  \/ Cancellation
  \/ Executor
  \/ ParallelAgents

SpecParallel == InitParallel /\ [][NextParallel]_vars

\* SpecDecompose: _decompose_task on every mode_config.  The task is queued
\* with a mode_config drawn from the registered ones and from the QUALITY
\* entry with any list of required agents (in the order of AgentKinds or in
\* the opposite order), either depth and any parallelization level; the engine
\* runs it up to task_decomposed.
AgentKinds ==
  <<"concept", "architect", "implement", "test", "review", "security",
    "optimize", "docs", "deploy">>

Reverse(s) == [i \in DOMAIN s |-> s[Len(s) + 1 - i]]

RequiredAgentLists ==
  UNION { { SelectSeq(AgentKinds, LAMBDA a : a \in S),
            SelectSeq(Reverse(AgentKinds), LAMBDA a : a \in S) } :
          S \in SUBSET Range(AgentKinds) }

DecomposeConfigs ==
  { MODE_CONFIGS[m] : m \in DOMAIN MODE_CONFIGS } \cup
  { [MODE_CONFIGS["QUALITY"] EXCEPT !.requiredAgents = r,
                                    !.decompositionDepth = d,
                                    !.parallelizationLevel = l] :
    r \in RequiredAgentLists, d \in {"shallow", "deep"},
    l \in {"aggressive", "balanced", "conservative"} }

InitDecompose ==
  /\ current_mode \in DOMAIN MODE_CONFIGS
  /\ running = TRUE
  /\ max_workers = 1
  /\ \E cfg \in DecomposeConfigs :
        tasks = <<create_initial_task_state("t1", "QUALITY", cfg, 0, 1)>>
  /\ active_tasks = [t \in TaskIds |-> IF t = "t1" THEN 1 ELSE 0]
  /\ task_queue = <<"t1">>
  /\ workers = <<>>
  /\ execs = <<>>
  /\ pq = 1
  /\ calls = <<>>
  /\ ncancel = 0
  /\ nswitch = 0
  /\ ev = NoEvent
  /\ ret = NoRet
  /\ cancelled_ok = {}
  /\ event_handlers = <<>>
  /\ manager = NoManager

NextDecompose ==
  \/ process_queue
  \/ \E e \in DOMAIN execs : execute_task_start(e)
  \/ \E e \in DOMAIN execs : execute_task_decompose(e)

SpecDecompose == InitDecompose /\ [][NextDecompose]_vars

\* SpecSnapshot: a consumer calls get_task_state, keeps what it got and may
\* write to it
\* lines 206-208: the dict of self._active_tasks itself is returned; the
\* caller holds a reference to the object (state) and has seen its value (seen)
get_task_state(task_id) ==
  /\ Cardinality({c \in DOMAIN calls : calls[c].op = "get_state"}) < SnapMaxGets
  /\ LET o == active_tasks[task_id]
     IN  /\ calls' = IF o = 0 THEN calls
                     ELSE Append(calls, [op |-> "get_state", task_id |-> task_id,
                                         state |-> o, seen |-> tasks[o]])
         /\ ret' = [op |-> "get_state", task_id |-> task_id, result |-> o]
  /\ ev' = NoEvent
  /\ UNCHANGED <<current_mode, running, max_workers, tasks, active_tasks, task_queue,
                 workers, execs, pq, ncancel, nswitch, cancelled_ok, event_handlers, manager>>

\* the consumer appends to the errors list of the dict it was given
consumer_mutate(c) ==
  /\ calls[c].op = "get_state"
  /\ Len(SelectSeq(tasks[calls[c].state].errors, LAMBDA r : r.type = "consumer"))
        < SnapMaxWrites
  /\ tasks' = [tasks EXCEPT ![calls[c].state].errors =
                               Append(@, [type |-> "consumer", message |-> "edited"])]
  /\ calls' = RemoveAt(calls, c)
  /\ ev' = NoEvent
  /\ ret' = NoRet
  /\ UNCHANGED <<current_mode, running, max_workers, active_tasks, task_queue,
                 workers, execs, pq, ncancel, nswitch, cancelled_ok, event_handlers, manager>>

NextSnapshot ==
  \/ tasks = <<>> /\ submit_task("t1", "SPEED", 0)
  \/ \E c \in DOMAIN calls : submit_task_return(c)
  \/ process_queue
  \/ \E t \in TaskIds : get_task_state(t)
  \/ \E c \in DOMAIN calls : consumer_mutate(c)
  \/ Executor

SpecSnapshot == InitModes /\ [][NextSnapshot]_vars

\* SpecHandlers: in-process handlers, some of which raise, are registered
\* before and while a SPEED task runs
HandledEvents == {"task_started", "agent_completed", "task_completed"}

\* lines 647-651: the handler is appended to the list of its event; a handler
\* is a coroutine function or not, and raises an Exception or returns
on(event, async, raises) ==
  /\ Len(event_handlers) < MaxHandlers
  /\ event_handlers' = Append(event_handlers,
                              [event |-> event, async |-> async, raises |-> raises])
  /\ ev' = NoEvent
  /\ ret' = NoRet
  /\ UNCHANGED <<current_mode, running, max_workers, tasks, active_tasks, task_queue,
                 workers, execs, pq, calls, ncancel, nswitch, cancelled_ok, manager>>

NextHandlers ==
  \/ \E event \in HandledEvents, async \in BOOLEAN, raises \in BOOLEAN :
        on(event, async, raises)
  \/ tasks = <<>> /\ submit_task("t1", "SPEED", 0)
  \/ \E c \in DOMAIN calls : submit_task_return(c)
  \/ process_queue
  \/ Executor

SpecHandlers == InitModes /\ [][NextHandlers]_vars

\* SpecErrors: one task of a registered mode during which the forward of an
\* event to the websocket manager may raise
NextErrors ==
  \/ \E m \in DOMAIN MODE_CONFIGS : tasks = <<>> /\ submit_task("t1", m, 0)
  \/ \E c \in DOMAIN calls : submit_task_return(c)
  \/ process_queue
  \/ Executor
  \/ \E e \in DOMAIN execs : emit_raises(e)
  \/ \E e \in DOMAIN execs : execute_task_failed_end(e)

SpecErrors == InitModes /\ [][NextErrors]_vars

\* SpecStop: submissions, cancel_task and one stop of the started engine
NextStop ==
  \/ \E t \in TaskIds : Len(tasks) < StopMaxSubmits /\ submit_task(t, "SPEED", 0)
  \/ \E c \in DOMAIN calls : submit_task_return(c)
  \/ process_queue
  \/ \E t \in TaskIds : ncancel < StopMaxCancels /\ cancel_task(t)
  \/ stop
  \/ \E c \in DOMAIN calls : stop_resume(c)
  \/ Cancellation
  \/ Executor

SpecStop == InitStarted /\ [][NextStop]_vars

\* SpecPrompt: a task with deep decomposition and any list of required agents
\* (in the order of AgentKinds or in the opposite order) runs to its end; the
\* provider answers each agent or fails
DeepConfigs ==
  { [MODE_CONFIGS["QUALITY"] EXCEPT !.requiredAgents = r] : r \in RequiredAgentLists }

InitPrompt ==
  /\ current_mode \in {"QUALITY", "AUTONOMY"}
  /\ running = TRUE
  /\ max_workers = 1
  /\ \E cfg \in DeepConfigs :
        tasks = <<create_initial_task_state("t1", "QUALITY", cfg, 0, 1)>>
  /\ active_tasks = [t \in TaskIds |-> IF t = "t1" THEN 1 ELSE 0]
  /\ task_queue = <<"t1">>
  /\ workers = <<>>
  /\ execs = <<>>
  /\ pq = 1
  /\ calls = <<>>
  /\ ncancel = 0
  /\ nswitch = 0
  /\ ev = NoEvent
  /\ ret = NoRet
  /\ cancelled_ok = {}
  /\ event_handlers = <<>>
  /\ manager = NoManager

NextPrompt ==
  \/ process_queue
  \/ Executor
  \/ \E e \in DOMAIN execs : execute_phase_gather(e)
  \/ \E e \in DOMAIN execs : \E i \in DOMAIN execs[e].children : agent_task_start(e, i)
  \/ \E e \in DOMAIN execs : \E i \in DOMAIN execs[e].children : agent_task_generate(e, i)
  \/ \E e \in DOMAIN execs : \E i \in DOMAIN execs[e].children, reply \in ProviderReplies :
        agent_task_result(e, i, reply)
  \/ \E e \in DOMAIN execs : \E i \in DOMAIN execs[e].children : agent_task_end(e, i)
  \/ \E e \in DOMAIN execs : execute_phase_gathered(e)

SpecPrompt == InitPrompt /\ [][NextPrompt]_vars

\* ------------------------------------------------------------------ websocket manager
\* SpecManager: connected clients subscribed to channels, and channel
\* broadcasts whose deliveries succeed or fail, several of them in flight

Clients == {"a", "b", "c"}

\* the orders in which an iteration can visit the set S
Orders(S) == {sq \in [1..Cardinality(S) -> S] : \A i, j \in DOMAIN sq : sq[i] = sq[j] => i = j}

\* manager.py lines 48-64: the client leaves the connections and every
\* subscription set
disconnect(m, client) ==
  [m EXCEPT !.connections = @ \ {client},
            !.subscriptions = [ch \in Channels |-> @[ch] \ {client}]]

RECURSIVE disconnect_all(_, _)
\* manager.py lines 140-141: every client whose delivery failed is disconnected
disconnect_all(m, failed) ==
  IF failed = <<>> THEN m ELSE disconnect_all(disconnect(m, Head(failed)), Tail(failed))

RECURSIVE broadcast_advance(_, _, _)
\* manager.py lines 131-143, from one fetch of the next subscriber to the next
\* await: the set iterator raises RuntimeError when the size of the set is
\* not the one it started with; a subscriber that is not connected is passed
\* over; send_json to a connected one suspends; after the last one the failed
\* clients are disconnected and the number of deliveries is returned
broadcast_advance(m, b, i) ==
  LET br == m.broadcasts[b] IN
  IF Cardinality(m.subscriptions[br.channel]) # br.size
    THEN [m EXCEPT !.broadcasts[b].pc = "raised"]
  ELSE IF i > Len(br.order)
    THEN [disconnect_all(m, br.disconnected) EXCEPT !.broadcasts[b].pc = "returned"]
  ELSE IF br.order[i] \in m.connections
    THEN [m EXCEPT !.broadcasts[b].pc = "send", !.broadcasts[b].pos = i]
  ELSE broadcast_advance(m, b, i + 1)

\* manager.py lines 119-131: a broadcast to the channel starts iterating over
\* the subscription set of the channel, in the order of the set
broadcast_to_channel(channel) ==
  /\ Len(manager.broadcasts) < MaxBroadcasts
  /\ \E order \in Orders(manager.subscriptions[channel]) :
       LET br == [channel |-> channel, order |-> order, pos |-> 0,
                  size |-> Len(order), disconnected |-> <<>>, received |-> {},
                  pc |-> "start"]
           m  == [manager EXCEPT !.broadcasts = Append(@, br)]
       IN manager' = broadcast_advance(m, Len(m.broadcasts), 1)
  /\ ev' = NoEvent
  /\ ret' = NoRet
  /\ UNCHANGED <<current_mode, running, max_workers, tasks, active_tasks, task_queue,
                 workers, execs, pq, calls, ncancel, nswitch, cancelled_ok, event_handlers>>

\* manager.py lines 133-138: send_json to the current subscriber returns, and
\* the delivery is counted, or raises, and the client is noted as failed; the
\* iteration goes on to the next subscriber
send_json_done(b, ok) ==
  /\ manager.broadcasts[b].pc = "send"
  /\ LET br == manager.broadcasts[b]
         client == br.order[br.pos]
         m == IF ok
                THEN [manager EXCEPT !.broadcasts[b].received = @ \cup {client}]
                ELSE [manager EXCEPT !.broadcasts[b].disconnected = Append(@, client)]
     IN manager' = broadcast_advance(m, b, br.pos + 1)
  /\ ev' = NoEvent
  /\ ret' = NoRet
  /\ UNCHANGED <<current_mode, running, max_workers, tasks, active_tasks, task_queue,
                 workers, execs, pq, calls, ncancel, nswitch, cancelled_ok, event_handlers>>

\* manager.py lines 31-46 and 66-70: every client is connected, and each
\* channel has some of them as subscribers
InitManager ==
  /\ current_mode = default_mode
  /\ running = TRUE
  /\ max_workers = MaxWorkersCfg
  /\ tasks = <<>>
  /\ active_tasks = [t \in TaskIds |-> 0]
  /\ task_queue = <<>>
  /\ workers = <<>>
  /\ execs = <<>>
  /\ pq = 0
  /\ calls = <<>>
  /\ ncancel = 0
  /\ nswitch = 0
  /\ ev = NoEvent
  /\ ret = NoRet
  /\ cancelled_ok = {}
  /\ event_handlers = <<>>
  /\ manager \in {[NoManager EXCEPT !.connections = Clients, !.subscriptions = subs] :
                    subs \in [Channels -> SUBSET Clients]}

NextManager ==
  \/ \E ch \in Channels : broadcast_to_channel(ch)
  \/ \E b \in DOMAIN manager.broadcasts, ok \in BOOLEAN : send_json_done(b, ok)

SpecManager == InitManager /\ [][NextManager]_vars

\* ------------------------------------------------------------------ claims
StateOf(t) == tasks[active_tasks[t]]
Started(t) == \E e \in DOMAIN execs : execs[e].task_id = t

\* C1: in every reachable state the worker set has at most max_workers
\* entries, whatever the interleaving of submit, cancel, admission and
\* worker completion.
C1_WorkerBound == Len(workers) <= max_workers

\* the pool is full, a task waits in the queue and the scheduler polls
C1_Witness ==
  /\ Len(workers) = max_workers
  /\ task_queue # <<>>
  /\ pq > 0
  /\ \E e \in DOMAIN execs : execs[e].pc = "generate"

\* C2: a cancel_task call on a task whose status is pending, decomposing or
\* running returns True, and at its return the status is cancelled,
\* completed_at is set, the id is neither queued nor in the worker set, and
\* task_cancelled has been emitted.
C2_CancelLive ==
  (ret.op = "cancel" /\ ret.status0 \in {PENDING, DECOMPOSING, RUNNING}) =>
     /\ ret.result = "True"
     /\ ret.emitted
     /\ tasks[ret.state].status = CANCELLED
     /\ tasks[ret.state].completed_at # None
     /\ ret.task_id \notin Range(task_queue)
     /\ ~InWorkers(workers, ret.task_id)

\* C3: a cancel_task call on an absent id or on a task whose status is
\* completed, failed or cancelled returns False at once, emits nothing and
\* leaves the tasks, the queue and the worker set as they are.
C3_CancelTerminal ==
  [][\A t \in TaskIds :
       (cancel_task(t) /\ (active_tasks[t] = 0 \/ StateOf(t).status \in Terminal))
         => /\ ret'.op = "cancel"
            /\ ret'.result = "False"
            /\ ev' = NoEvent
            /\ UNCHANGED <<tasks, task_queue, workers>>]_vars

\* C4: once a cancel_task call for an id has returned True, no agent_started
\* event is emitted for that id.
C4_NoAgentAfterCancel ==
  ev.type = "agent_started" => ev.task_id \notin cancelled_ok

\* C5: a submission under a mode name that MODE_CONFIGS does not have creates
\* no task state, no queue entry and no task_submitted event.
C5_UnknownModeRejected ==
  /\ \A o \in DOMAIN tasks : tasks[o].mode \in DOMAIN MODE_CONFIGS
  /\ \A i \in DOMAIN task_queue : StateOf(task_queue[i]).mode \in DOMAIN MODE_CONFIGS
  /\ ev.type = "task_submitted" => StateOf(ev.task_id).mode \in DOMAIN MODE_CONFIGS

\* C6: a submit_task call with an id the engine already holds leaves the
\* task states, the id's state, the queue and the worker set unchanged.
C6_DuplicateRejected ==
  [][\A t \in TaskIds, m \in DOMAIN MODE_CONFIGS, p \in Priorities :
       (active_tasks[t] # 0 /\ submit_task(t, m, p))
         => UNCHANGED <<tasks, active_tasks, task_queue, workers>>]_vars

\* C7: the queue is ordered by priority, highest first, and among equal
\* priorities by submission (created_at), earliest first.
C7_QueueOrdered ==
  \A i, j \in DOMAIN task_queue :
    i < j =>
      \/ StateOf(task_queue[i]).priority > StateOf(task_queue[j]).priority
      \/ /\ StateOf(task_queue[i]).priority = StateOf(task_queue[j]).priority
         /\ StateOf(task_queue[i]).created_at <= StateOf(task_queue[j]).created_at

\* C8 as stated: with max_workers = 1 on an idle started engine, after submit
\* t1 with priority 0 and then t2 with priority 10, a worker for t1 exists only
\* when t2 has been started and has reached a terminal status.
C8_PriorityScenario ==
  Started("t1") =>
     /\ Started("t2")
     /\ active_tasks["t2"] # 0
     /\ StateOf("t2").status \in Terminal

\* C8 amended: in the same scenario, a step that starts t1 when t2 has already
\* been submitted is taken only when t2 has been started and has reached a
\* terminal status; t1 is started ahead of t2 only by a scheduler run that
\* comes before the submission of t2.
C8_PriorityAmongQueued ==
  [][(~Started("t1") /\ Started("t1")' /\ active_tasks["t2"] # 0)
       => (Started("t2") /\ StateOf("t2").status \in Terminal)]_vars

\* t2 has run to its end on the only worker and t1 is being executed
C8_Witness ==
  /\ Started("t1") /\ Started("t2")
  /\ StateOf("t1").status = RUNNING
  /\ StateOf("t2").status \in {COMPLETED, FAILED}

\* C9: every id in the queue has a task state, and its status is pending.
C9_QueuedArePending ==
  \A i \in DOMAIN task_queue :
     /\ active_tasks[task_queue[i]] # 0
     /\ StateOf(task_queue[i]).status = PENDING

\* C10: no step changes the mode name or the mode config of a task state that
\* exists; a new task state takes the mode current at its submission when no
\* name is given; and every executor decomposes its task, and calls the
\* provider, under the config of the mode the task was submitted in, whatever
\* switch_mode has made the current mode since.
UnderOwnMode(ts, ex) ==
  \A e \in DOMAIN ex :
     ex[e].state # 0 =>
        LET cfg == ModeConfigGet(ts[ex[e].state].mode)
            own == decompose_task(cfg)
        IN  /\ ex[e].pc \notin {"created", "task_started"}
                 => /\ Len(ex[e].phases) = Len(own)
                    /\ \A p \in DOMAIN ex[e].phases :
                          /\ ex[e].phases[p].name = own[p].name
                          /\ ex[e].phases[p].agents = own[p].agents
                          /\ ex[e].phases[p].parallel = own[p].parallel
            /\ ex[e].pc = "generate" => ex[e].call = cfg.primaryModel

SwitchInputs == DOMAIN MODE_CONFIGS \cup {UnknownMode}

C11_SwitchMode ==
  [][/\ \A m \in SwitchInputs :
          switch_mode(m) =>
             IF m \in DOMAIN MODE_CONFIGS
             THEN /\ current_mode' = m
                  /\ ev'.type = "mode_change"
                  /\ Len(calls') = Len(calls) + 1
                  /\ calls'[Len(calls')].old_mode = current_mode
                  /\ calls'[Len(calls')].new_mode = m
             ELSE /\ ret'.op = "switch_mode"
                  /\ ret'.result = "ValueError"
                  /\ current_mode' = current_mode
                  /\ ev' = NoEvent
                  /\ calls' = calls
     /\ \A c \in DOMAIN calls :
          switch_mode_return(c) =>
             /\ ret'.result = "ok"
             /\ ret'.old_mode = calls[c].old_mode
             /\ ret'.new_mode = calls[c].new_mode
             /\ ev' = NoEvent
             /\ current_mode' = current_mode]_vars

\* a switch to a registered mode has returned its old and new mode
C11_Witness ==
  /\ ret.op = "switch_mode"
  /\ ret.result = "ok"
  /\ ret.old_mode = default_mode
  /\ ret.new_mode = "SPEED"
  /\ current_mode = "SPEED"

\* C12: with the engine running, under the fairness of the event loop and a
\* provider that answers every call with a result or an error, every task id
\* that has been submitted (and no cancel is ever called) leads to a state in
\* which the task has been taken by an executor and its status is completed
\* or failed, also when it had to wait in the queue for a worker.
C12_EventuallyTerminal ==
  \A t \in TaskIds :
     (active_tasks[t] # 0)
        ~> /\ active_tasks[t] # 0
           /\ \E e \in DOMAIN execs : execs[e].state = active_tasks[t]
           /\ StateOf(t).status \in {COMPLETED, FAILED}

\* with one worker, the second task has waited for the first and both have ended
C12_Witness ==
  /\ max_workers = 1
  /\ Len(tasks) = 2
  /\ active_tasks["t1"] # 0 /\ active_tasks["t2"] # 0
  /\ \A t \in TaskIds :
        /\ \E e \in DOMAIN execs : execs[e].state = active_tasks[t] /\ execs[e].pc = "done"
        /\ StateOf(t).status \in {COMPLETED, FAILED}

\* C13: the terminal event of a task matches its final status: an executor
\* that has emitted task_completed has a task whose status is completed, never
\* one whose status is failed.
C13_TerminalEventMatches ==
  \A e \in DOMAIN execs :
     execs[e].pc = "task_completed" => tasks[execs[e].state].status = COMPLETED

\* C14: for every task state, completed_at is set if and only if the status is
\* completed, failed or cancelled.
C14_CompletedAtIffTerminal ==
  \A o \in DOMAIN tasks :
     (tasks[o].completed_at # None) <=> (tasks[o].status \in Terminal)

\* C15: for every task state, started_at is set if and only if the status has
\* left pending (no step sets a status back to pending), also for a task
\* cancelled while it waits in the queue.
C15_StartedAtIffLeftPending ==
  \A o \in DOMAIN tasks :
     (tasks[o].started_at # None) <=> (tasks[o].status # PENDING)

\* C16: for every task id the engine holds, no step lowers the tokens_used or
\* the estimated_cost that get_task_state returns for the id.
C16_TotalsNondecreasing ==
  [][\A t \in TaskIds :
       active_tasks[t] # 0 =>
          /\ StateOf(t)'.tokens_used >= StateOf(t).tokens_used
          /\ StateOf(t)'.estimated_cost >= StateOf(t).estimated_cost]_vars

\* C17: a step in which the provider call of an agent fails leaves the
\* executor running on after _execute_agent (the error is not raised further),
\* records status failed and the error in the execution, and leaves the task's
\* tokens_used, estimated_cost and results as they were; the phase of a failed
\* execution ends failed, and so does the task.
HasFailed(ph) == \E i \in DOMAIN ph.executions : ph.executions[i].status = "failed"

C17_ProviderFailure ==
  [][/\ \A e \in DOMAIN execs, reply \in ProviderReplies :
          (~reply.ok /\ execute_agent_result(e, reply)) =>
             LET o == execs[e].state
                 p == execs[e].phase_idx
                 k == Len(execs[e].phases[p].executions)
             IN  /\ execs'[e].pc = "agent_completed"
                 /\ execs'[e].phases[p].executions[k].status = "failed"
                 /\ execs'[e].phases[p].executions[k].error # None
                 /\ tasks'[o].tokens_used = tasks[o].tokens_used
                 /\ tasks'[o].estimated_cost = tasks[o].estimated_cost
                 /\ tasks'[o].results = tasks[o].results
     /\ \A e \in DOMAIN execs' :
          (execs'[e].phase_idx > 0 /\ HasFailed(execs'[e].phases[execs'[e].phase_idx])) =>
             /\ execs'[e].pc \in {"phase_completed", "task_completed", "done"}
                   => execs'[e].phases[execs'[e].phase_idx].status = FAILED
             /\ execs'[e].pc \in {"task_completed", "done"}
                   => tasks'[execs'[e].state].status = FAILED]_vars

\* the second agent of a task has failed after the first had added its tokens,
\* and the task has ended failed with the totals of the first
C17_Witness ==
  \E e \in DOMAIN execs :
     /\ execs[e].pc = "done"
     /\ execs[e].phase_idx = 2
     /\ HasFailed(execs[e].phases[2])
     /\ execs[e].phases[2].status = FAILED
     /\ tasks[execs[e].state].status = FAILED
     /\ tasks[execs[e].state].tokens_used = 3
     /\ DOMAIN tasks[execs[e].state].results = {"concept"}

\* C18: in a phase that runs its agents sequentially the executions are those
\* of the first agents in declared order, each started, and every execution
\* but the last is completed: none is started while another runs and none
\* after one that failed.
C18_SequentialPhase ==
  \A e \in DOMAIN execs :
     \A p \in DOMAIN execs[e].phases :
        LET ph == execs[e].phases[p]
        IN  ~RunsParallel(ph) =>
               /\ Len(ph.executions) <= Len(ph.agents)
               /\ \A i \in DOMAIN ph.executions :
                     /\ ph.executions[i].agent_type = ph.agents[i]
                     /\ ph.executions[i].started_at # None
                     /\ i < Len(ph.executions)
                          => /\ ph.executions[i].status = "completed"
                             /\ ph.executions[i].completed_at # None

\* the first of two agents has failed and the phase has ended without the second
C18_Witness ==
  \E e \in DOMAIN execs :
     /\ execs[e].pc = "done"
     /\ Len(execs[e].phases) = 1
     /\ execs[e].phases[1].agents = <<"implement", "test">>
     /\ Len(execs[e].phases[1].executions) = 1
     /\ execs[e].phases[1].executions[1].status = "failed"

\* C19: within one task a phase that has been started, or has an execution,
\* comes after phases that all have their completed_at, status completed, and
\* one finished execution for each of their agents.
PhaseStarted(ph) ==
  ph.started_at # None \/ ph.status # PENDING \/ ph.executions # <<>>

ExecutorEvents ==
  {"task_started", "task_decomposed", "phase_started", "agent_started",
   "agent_completed", "phase_completed", "task_completed", "task_failed"}

\* v may be the next event of an executor whose record was x
Follows(x, v) ==
  CASE x.pc = "created" -> v.type = "task_started"
    [] x.pc = "task_started" -> v.type = "task_decomposed"
    [] x.pc = "task_decomposed" ->
         \/ v.type = "phase_started" /\ v.phase = 1
         \/ v.type = "task_completed" /\ x.phases = <<>>
    [] x.pc = "phase_started" ->
         \/ /\ v.type = "agent_started"
            /\ v.phase = x.phase_idx
            /\ x.phases[x.phase_idx].agents # <<>>
            /\ v.agent = x.phases[x.phase_idx].agents[1]
         \/ /\ v.type = "phase_completed"
            /\ v.phase = x.phase_idx
            /\ x.phases[x.phase_idx].agents = <<>>
    [] x.pc \in {"agent_started", "generate"} ->
         /\ v.type = "agent_completed"
         /\ v.phase = x.phase_idx
         /\ v.agent = x.phases[x.phase_idx].agents[x.agent_idx]
    [] x.pc = "agent_completed" ->
         \/ /\ v.type = "agent_started"
            /\ v.phase = x.phase_idx
            /\ x.agent_idx < Len(x.phases[x.phase_idx].agents)
            /\ v.agent = x.phases[x.phase_idx].agents[x.agent_idx + 1]
         \/ v.type = "phase_completed" /\ v.phase = x.phase_idx
    [] x.pc = "phase_completed" ->
         \/ v.type = "phase_started" /\ v.phase = x.phase_idx + 1
         \/ v.type \in {"task_completed", "task_failed"}
    [] OTHER -> FALSE

C20_EventOrder ==
  [][/\ ev'.type \in ExecutorEvents \cup {"task_submitted", "task_cancelled"} =>
          LET t == ev'.task_id
          IN  /\ active_tasks'[t] # 0
              /\ ev'.type = "task_submitted" => active_tasks[t] = 0
              /\ ev'.type = "task_cancelled" => StateOf(t).status \notin Terminal
              /\ ev'.type \in ExecutorEvents =>
                    \E e \in DOMAIN execs :
                       /\ execs[e].task_id = t
                       /\ execs'[e] # execs[e]
                       /\ Follows(execs[e], ev')
                       /\ StateOf(t).status \notin Terminal
     /\ \A e \in DOMAIN execs' :
          (/\ execs'[e].pc = "done"
           /\ execs'[e].state # 0
           /\ ~\E c \in DOMAIN calls' :
                  calls'[c].op = "cancel" /\ calls'[c].worker = e)
             => tasks'[execs'[e].state].status \in Terminal]_vars

\* C21: a task whose execution has taken longer than the taskTimeout of its
\* mode config has ended with status failed and an error of type timeout in
\* its errors.
C21_TimeoutFails ==
  \A e \in DOMAIN execs :
     (/\ execs[e].pc = "done"
      /\ execs[e].state # 0
      /\ execs[e].elapsed > tasks[execs[e].state].mode_config.taskTimeout)
       => /\ tasks[execs[e].state].status = FAILED
          /\ \E i \in DOMAIN tasks[execs[e].state].errors :
                tasks[execs[e].state].errors[i].type = "timeout"

CanonicalGroups ==
  << [name |-> "Concept", group |-> <<"concept">>],
     [name |-> "Architecture", group |-> <<"architect">>],
     [name |-> "Implementation", group |-> <<"implement">>],
     [name |-> "Testing", group |-> <<"test">>],
     [name |-> "Review", group |-> <<"review", "security">>],
     [name |-> "Optimization", group |-> <<"optimize">>],
     [name |-> "Documentation", group |-> <<"docs">>],
     [name |-> "Deployment", group |-> <<"deploy">>] >>

GroupOf(name) == CHOOSE g \in DOMAIN CanonicalGroups : CanonicalGroups[g].name = name

Decomposed(e) == execs[e].pc = "task_decomposed"

SixAgents == <<"concept", "architect", "implement", "test", "review", "docs">>
SevenAgents == <<"concept", "architect", "implement", "test", "review", "security", "docs">>

C23_DeepDecomposition ==
  \A e \in DOMAIN execs :
     (Decomposed(e) /\ tasks[execs[e].state].mode_config.decompositionDepth = "deep") =>
       LET ph == execs[e].phases
           req == Range(tasks[execs[e].state].mode_config.requiredAgents)
       IN  /\ \A p \in DOMAIN ph :
                /\ ph[p].number = p
                /\ ph[p].agents # <<>>
                /\ \E g \in DOMAIN CanonicalGroups :
                      /\ ph[p].name = CanonicalGroups[g].name
                      /\ ph[p].agents = SelectSeq(CanonicalGroups[g].group,
                                                  LAMBDA a : a \in req)
           /\ \A p, q \in DOMAIN ph : p < q => GroupOf(ph[p].name) < GroupOf(ph[q].name)
           /\ \A g \in DOMAIN CanonicalGroups :
                 Range(CanonicalGroups[g].group) \cap req # {} =>
                    \E p \in DOMAIN ph : ph[p].name = CanonicalGroups[g].name
           /\ tasks[execs[e].state].mode_config.requiredAgents = SixAgents =>
                 /\ [p \in DOMAIN ph |-> ph[p].name] =
                       <<"Concept", "Architecture", "Implementation", "Testing",
                         "Review", "Documentation">>
                 /\ \A p \in DOMAIN ph : Len(ph[p].agents) = 1 /\ ~ph[p].parallel
           /\ tasks[execs[e].state].mode_config.requiredAgents = SevenAgents =>
                 /\ Len(ph) = 6
                 /\ ph[5].name = "Review"
                 /\ ph[5].agents = <<"review", "security">>
                 /\ ph[5].parallel

C23_Witness ==
  \E e \in DOMAIN execs :
     /\ Decomposed(e)
     /\ tasks[execs[e].state].mode_config.decompositionDepth = "deep"
     /\ tasks[execs[e].state].mode_config.requiredAgents = SevenAgents
     /\ Len(execs[e].phases) = 6
     /\ execs[e].phases[5].agents = <<"review", "security">>

\* C24: every phase the decomposer produces, in any mode, has parallel true
\* exactly when it holds more than one agent; the SPEED mode yields the single
\* phase Execution with agents [implement] and parallel false.
C24_ParallelIffSeveral ==
  \A e \in DOMAIN execs :
     Decomposed(e) =>
       /\ \A p \in DOMAIN execs[e].phases :
             execs[e].phases[p].parallel <=> Len(execs[e].phases[p].agents) > 1
       /\ tasks[execs[e].state].mode_config = MODE_CONFIGS["SPEED"] =>
             /\ Len(execs[e].phases) = 1
             /\ execs[e].phases[1].name = "Execution"
             /\ execs[e].phases[1].agents = <<"implement">>
             /\ ~execs[e].phases[1].parallel

\* C25: the decomposer is a deterministic function of the mode config: two
\* tasks with the same mode config, whatever the engine's state when each was
\* decomposed, get phase lists with the same numbers, names, agent lists and
\* parallel flags.
HasPhases(e) == execs[e].state # 0 /\ tasks[execs[e].state].phases = e

PhaseStructure(phases) ==
  [p \in DOMAIN phases |->
     [number |-> phases[p].number, name |-> phases[p].name,
      agents |-> phases[p].agents, parallel |-> phases[p].parallel]]

C26_Snapshot ==
  /\ \A c \in DOMAIN calls :
        calls[c].op = "get_state" => tasks[calls[c].state] = calls[c].seen
  /\ \A o \in DOMAIN tasks :
        \A i \in DOMAIN tasks[o].errors : tasks[o].errors[i].type # "consumer"

\* C27: an exception raised by a registered handler, synchronous or
\* asynchronous, is swallowed: every handler of the event is still called, the
\* event is still forwarded to the channel subscribers, nothing is raised into
\* the emitting coroutine, and the task ends as it does without handlers
\* (completed when its phase completed, failed when it failed, no error
\* record).
C27_HandlerErrorsSwallowed ==
  /\ ev # NoEvent =>
        /\ ev.called = [i \in 1..Len(HandlersOf(ev.type)) |-> i]
        /\ ev.forwarded
        /\ ~ev.propagated
  /\ \A e \in DOMAIN execs :
        execs[e].pc = "done" =>
           /\ tasks[execs[e].state].errors = <<>>
           /\ tasks[execs[e].state].status =
                 IF \E p \in DOMAIN execs[e].phases : execs[e].phases[p].status = "failed"
                 THEN FAILED ELSE COMPLETED

C27_Witness ==
  /\ ev.type = "agent_completed"
  /\ Len(HandlersOf("agent_completed")) = 2
  /\ HandlersOf("agent_completed")[1].raises
  /\ ev.called = <<1, 2>>
  /\ ev.forwarded

\* C28: starting a worker removes the task id from the queue and sets the
\* status decomposing in one step: no task id is both in the queue and in the
\* worker set, and no task in the worker set has status pending.
C28_WorkerStartAtomic ==
  \A w \in DOMAIN workers :
     /\ workers[w].task_id \notin Range(task_queue)
     /\ StateOf(workers[w].task_id).status # PENDING

\* C29: when a phase of a task ends with status failed, no later phase of the
\* task is started (each keeps status pending and has no executions) and the
\* task's status becomes failed.
C29_FailedPhaseStops ==
  \A e \in DOMAIN execs :
     \A p \in DOMAIN execs[e].phases :
        execs[e].phases[p].status = "failed" =>
           /\ \A q \in DOMAIN execs[e].phases :
                 q > p => /\ execs[e].phases[q].status = PENDING
                          /\ execs[e].phases[q].executions = <<>>
                          /\ execs[e].phases[q].started_at = None
           /\ execs[e].pc \in {"task_completed", "done"} =>
                 tasks[execs[e].state].status = FAILED

C29_Witness ==
  \E e \in DOMAIN execs :
     /\ execs[e].pc = "done"
     /\ Len(execs[e].phases) > 2
     /\ execs[e].phases[1].status = "completed"
     /\ execs[e].phases[2].status = "failed"
     /\ execs[e].phases[3].status = PENDING
     /\ tasks[execs[e].state].status = FAILED

\* C30: whenever phase_completed is emitted for a phase, the phase has
\* completed_at set and its status is failed if one of its executions failed
\* and completed otherwise; no phase is reported finished with status running.
C30_PhaseCompletedFinal ==
  \A e \in DOMAIN execs :
     (/\ ev.type = "phase_completed"
      /\ ev.task_id = execs[e].task_id
      /\ execs[e].pc \in {"phase_completed", "unwind_phase"}) =>
        LET ph == execs[e].phases[execs[e].phase_idx]
        IN  /\ ph.number = ev.phase
            /\ ph.completed_at # None
            /\ ph.status =
                 IF \E i \in DOMAIN ph.executions : ph.executions[i].status = "failed"
                 THEN "failed" ELSE "completed"

\* C36: with shallow decomposition the decomposer yields exactly one phase,
\* numbered 1 and named Execution, whose agents are all required_agents in
\* their configured order, with parallel true exactly when the
\* parallelization level is aggressive.
C36_ShallowDecomposition ==
  \A e \in DOMAIN execs :
     (Decomposed(e) /\ tasks[execs[e].state].mode_config.decompositionDepth = "shallow") =>
       LET ph == execs[e].phases
           cfg == tasks[execs[e].state].mode_config
       IN  /\ Len(ph) = 1
           /\ ph[1].number = 1
           /\ ph[1].name = "Execution"
           /\ ph[1].agents = cfg.requiredAgents
           /\ ph[1].parallel <=> (cfg.parallelizationLevel = "aggressive")

C36_Witness ==
  \E e \in DOMAIN execs :
     /\ Decomposed(e)
     /\ tasks[execs[e].state].mode_config.decompositionDepth = "shallow"
     /\ tasks[execs[e].state].mode_config.parallelizationLevel = "balanced"
     /\ tasks[execs[e].state].mode_config.requiredAgents = <<"test", "implement">>
     /\ execs[e].phases[1].agents = <<"test", "implement">>
     /\ ~execs[e].phases[1].parallel

\* C31: if an unexpected exception escapes inside the task executor, for
\* example from event emission, the task ends with status failed and
\* completed_at set, exactly one record of type execution_error is appended
\* to errors, task_failed is emitted (not task_completed), and the task's
\* worker is removed from the worker set.
C31_ExecutionError ==
  \A e \in DOMAIN execs :
     execs[e].raised > 0 =>
       /\ execs[e].pc # "task_completed"
       /\ execs[e].pc = "task_failed" => ev.type = "task_failed"
       /\ execs[e].pc = "done" =>
            /\ tasks[execs[e].state].status = FAILED
            /\ tasks[execs[e].state].completed_at # None
            /\ Len(SelectSeq(tasks[execs[e].state].errors,
                             LAMBDA r : r.type = "execution_error")) = 1
            /\ ~InWorkers(workers, execs[e].task_id)

\* C32: in every reachable state a task's tokens_used is the sum of
\* tokens_input + tokens_output over its executions with status completed,
\* its estimated_cost is the sum of their costs, and results has an entry for
\* an agent kind exactly when an execution of that kind has completed; also
\* when the agents of a parallel phase complete in any order.
RECURSIVE Executions(_, _)
Executions(phases, p) ==
  IF p > Len(phases) THEN <<>> ELSE phases[p].executions \o Executions(phases, p + 1)

\* the executions of state["phases"] that have status completed
CompletedOf(o) ==
  IF tasks[o].phases = 0 THEN <<>>
  ELSE SelectSeq(Executions(execs[tasks[o].phases].phases, 1),
                 LAMBDA x : x.status = "completed")

RECURSIVE SumTokens(_)
SumTokens(xs) ==
  IF xs = <<>> THEN 0 ELSE Head(xs).tokens_input + Head(xs).tokens_output + SumTokens(Tail(xs))

RECURSIVE SumCost(_)
SumCost(xs) == IF xs = <<>> THEN 0 ELSE Head(xs).cost + SumCost(Tail(xs))

C32_Accounting ==
  \A o \in DOMAIN tasks :
     /\ tasks[o].tokens_used = SumTokens(CompletedOf(o))
     /\ tasks[o].estimated_cost = SumCost(CompletedOf(o))
     /\ DOMAIN tasks[o].results = {CompletedOf(o)[i].agent_type : i \in DOMAIN CompletedOf(o)}

\* C33: the success update of one agent is atomic for every other activity:
\* in no reachable state is an execution marked completed while the task's
\* tokens_used, estimated_cost or results entry does not include it.
CompletedBy(o) ==
  SelectSeq(Executions([e \in DOMAIN execs |->
                          [executions |-> IF execs[e].state = o
                                          THEN Executions(execs[e].phases, 1)
                                          ELSE <<>>]], 1),
            LAMBDA x : x.status = "completed")

C33_UpdateAtomic ==
  \A o \in DOMAIN tasks :
     /\ tasks[o].tokens_used = SumTokens(CompletedBy(o))
     /\ tasks[o].estimated_cost = SumCost(CompletedBy(o))
     /\ \A i \in DOMAIN CompletedBy(o) :
           /\ CompletedBy(o)[i].agent_type \in DOMAIN tasks[o].results
           /\ tasks[o].results[CompletedBy(o)[i].agent_type] =
                 [tokens |-> CompletedBy(o)[i].tokens_input + CompletedBy(o)[i].tokens_output,
                  cost |-> CompletedBy(o)[i].cost]

\* an agent of a parallel phase has completed while its sibling still waits
\* for the provider
C33_Witness ==
  \E e \in DOMAIN execs :
     /\ execs[e].pc = "gather"
     /\ \E i, j \in DOMAIN execs[e].children :
           /\ execs[e].children[i].pc = "agent_completed"
           /\ execs[e].children[j].pc = "generate"
     /\ Len(CompletedBy(execs[e].state)) = 2
     /\ tasks[execs[e].state].tokens_used > 0

C39_StopCancelsAll ==
  ret.op = "stop" =>
     /\ ret.result = "None"
     /\ workers = <<>>
     /\ \A e \in DOMAIN execs : execs[e].pc = "done"
     /\ ~running

\* C38: no task is orphaned: in every reachable state every task whose status
\* is decomposing or running has a worker in the worker set that is still
\* executing it.
C38_NoOrphan ==
  \A o \in DOMAIN tasks :
     tasks[o].status \in {DECOMPOSING, RUNNING} =>
        \E w \in DOMAIN workers :
           /\ execs[workers[w].worker].state = o
           /\ execs[workers[w].worker].pc # "done"

\* C37: terminal statuses are absorbing: once a task's status is completed,
\* failed or cancelled, no engine operation changes its status, completed_at,
\* results, tokens_used or estimated_cost.
Absorbed(s) ==
  [status |-> s.status, completed_at |-> s.completed_at, results |-> s.results,
   tokens_used |-> s.tokens_used, estimated_cost |-> s.estimated_cost]

C37_TerminalAbsorbing ==
  [][\A o \in DOMAIN tasks :
       tasks[o].status \in Terminal => Absorbed(tasks'[o]) = Absorbed(tasks[o])]_vars

\* the connected subscribers that a broadcast iterates over and whose delivery
\* did not fail
Deliverable(br) ==
  {br.order[i] : i \in {j \in DOMAIN br.order :
                          /\ br.order[j] \in manager.connections
                          /\ \A k \in DOMAIN br.disconnected : br.disconnected[k] # br.order[j]}}

\* C35: a broadcast in which a delivery failed does not raise, and once it is
\* over the failed subscriber is in no subscription set and not connected, and
\* every other subscriber of the channel has received the message
C35_DeliveryFailureIsolated ==
  \A b \in DOMAIN manager.broadcasts :
    LET br == manager.broadcasts[b] IN
    br.disconnected # <<>> =>
      /\ br.pc # "raised"
      /\ br.pc = "returned" =>
           /\ \A k \in DOMAIN br.disconnected :
                /\ br.disconnected[k] \notin manager.connections
                /\ \A ch \in Channels : br.disconnected[k] \notin manager.subscriptions[ch]
           /\ Deliverable(br) \subseteq br.received

\* the agents of executor e that have been started and have not got their
\* answer: <<agent kind, prompt or NoPrompt>>
StartedAgents(e) ==
  (IF execs[e].pc \in {"agent_started", "generate"}
   THEN {<<execs[e].phases[execs[e].phase_idx].agents[execs[e].agent_idx],
           IF execs[e].pc = "generate" THEN execs[e].prompt ELSE NoPrompt>>}
   ELSE {})
  \cup
  (IF execs[e].pc = "gather"
   THEN {<<execs[e].children[i].agent,
           IF execs[e].children[i].pc = "generate" THEN execs[e].children[i].prompt
           ELSE NoPrompt>> :
         i \in {j \in DOMAIN execs[e].children :
                  execs[e].children[j].pc \in {"agent_started", "generate"}}}
   ELSE {})

\* C40: in a task with deep decomposition, while an agent is started the
\* results hold the output of the kind its prompt reads whenever that kind is
\* among the required agents, and a prompt that has been built holds N/A only
\* for a kind that is not required
C40_PromptContextPresent ==
  \A e \in DOMAIN execs :
    (execs[e].state # 0 /\ tasks[execs[e].state].mode_config.decompositionDepth = "deep") =>
      LET ts == tasks[execs[e].state]
          required == Range(ts.mode_config.requiredAgents)
      IN  \A sa \in StartedAgents(e) :
            LET ref == PromptReference(sa[1]) IN
            /\ (ref # None /\ ref \in required) => ref \in DOMAIN ts.results
            /\ (sa[2] # NoPrompt /\ sa[2].context = "N/A") => ref \notin required

\* a deep task whose required agents list implement before architect has
\* built the prompt of implement on the output of architect
C40_Witness ==
  \E e \in DOMAIN execs :
    /\ execs[e].state # 0
    /\ tasks[execs[e].state].mode_config.decompositionDepth = "deep"
    /\ tasks[execs[e].state].mode_config.requiredAgents # <<>>
    /\ Head(tasks[execs[e].state].mode_config.requiredAgents) = "deploy"
    /\ execs[e].pc = "generate"
    /\ execs[e].prompt = [agent |-> "implement", context |-> "architect"]

====
